---- MODULE Spec2Model ----
(***************************************************************************)
(* Asynchronous codec session engine of webcodecs-node:                    *)
(* VideoEncoderAsync (src/native/async_encoder.cpp) and VideoDecoderAsync  *)
(* (src/native/async_decoder.cpp).  One caller thread (the JavaScript main *)
(* thread, which also dispatches the thread-safe-function callbacks), the  *)
(* worker threads started by Configure, the job queue guarded by           *)
(* queueMutex_/queueCV_, the codec instance behind codecCtx_ and the three *)
(* thread-safe functions tsfnOutput_, tsfnError_ and tsfnFlush_.           *)
(***************************************************************************)
EXTENDS Integers, Sequences, FiniteSets, TLC

\* ---------------------------------------------------------------- bounds
MaxJobs == 2        \* jobs (encode/decode/flush) pushed over a run
MaxWorkers == 2     \* thread slots (a second one only lives after a re-configure)
MaxDelay == 1       \* frames the codec may hold back before it emits output
MaxSyncFlush == 1   \* flush() calls answered synchronously (not configured)
MaxCalls == 3       \* configure(), reset() and close() calls over a run
MaxDim == 2         \* widths and heights of frames and of the configured picture
MaxBitrate == 2     \* values of config.bitrate
MaxFps == 2         \* values of config.framerate

Workers == 1..MaxWorkers
Kinds == {"enc", "dec"}
Faults == {"none", "send", "recv"}
Prefs == {"NoPreference", "PreferHardware", "PreferSoftware"}

VARIABLES
    kind,          \* which class the session is: "enc" | "dec"
    codecDelay,    \* latency of the opened codec (frames buffered before output)
    cpc,           \* position of the caller thread
    crashed,       \* process aborted (std::terminate / null dereference)
    lastErr,       \* exception thrown by the last API call ("" = none)
    configured,    \* configured_
    running,       \* running_
    flushPending,  \* flushPending_
    tsfnFlush,     \* tsfnFlush_: id of the flush callback it wraps, 0 = empty
    workerThread,  \* workerThread_: slot of the joinable thread, 0 = not joinable
    codecCtx,      \* codecCtx_: "null" | "alloc" (not opened) | "open"
    hwType,        \* hwType_: "None" | "hw"
    hwDeviceCtx,   \* hwDeviceCtx_ != nullptr
    hwFramesCtx,   \* hwFramesCtx_ != nullptr
    jobQueue,      \* jobQueue_: sequence of job ids
    wpc,           \* position of each worker thread
    wjob,          \* the job a worker has dequeued (0 = none)
    codecBuf,      \* inputs accepted by the codec and not yet emitted
    codecEof,      \* codec is draining (it was sent the null frame/packet)
    chOutput,      \* call queue of tsfnOutput_
    chError,       \* call queue of tsfnError_
    chFlush,       \* call queues of the tsfnFlush_ objects
    delivered,     \* callbacks run on the caller thread, in order
    syncFlush,     \* number of flush callbacks invoked synchronously
    submitted,     \* every job pushed, by id
    processed,     \* job ids in the order the workers dequeued them
    discarded,     \* job ids removed from the queue by reset()
    closeDropped,  \* job ids removed from the queue by close()
    atReset,       \* job ids a worker held when reset() cleared the queue
    sendOk,        \* job ids the codec accepted
    nProduced,     \* frames/chunks the codec has emitted
    joins,         \* completed thread joins
    calls,         \* number of configure/reset/close calls made so far
    lifecycle,     \* "Unconfigured" | "Configured" | "Closed" | "Destroyed"
    codecString,   \* config.codec of the configure calls
    hwPref,        \* config.hardwareAcceleration, parsed
    registry,      \* names avcodec_find_encoder/decoder_by_name knows
    selInfo,       \* EncoderInfo/DecoderInfo of the last selector call
    width,         \* width_
    height,        \* height_
    alpha,         \* alpha_
    pixFmt,        \* codecCtx_->pix_fmt
    extradata,     \* codecCtx_->extradata is set and extradata_size > 0
    codecName_,    \* codecName_: the name of the codec Configure found
    swsCtx,        \* swsCtx_: NullCtx or the conversion the context was made for
    frame,         \* the last frame ProcessEncode built for the codec
    chunk,         \* the last EncodeResult built from a packet
    config,        \* the arguments of the configure calls (width, bitrate, ...)
    opened         \* the parameters the codec context was opened with

sessionVars == <<configured, running, flushPending, tsfnFlush, workerThread,
                 codecCtx, hwType, hwDeviceCtx, hwFramesCtx, jobQueue, wpc, wjob,
                 codecBuf, codecEof>>
channelVars == <<chOutput, chError, chFlush, delivered, syncFlush>>
ghostVars == <<submitted, processed, discarded, closeDropped, atReset, sendOk,
               nProduced, joins, lifecycle>>
selVars == <<codecString, hwPref, registry, selInfo>>
encodeVars == <<width, height, alpha, pixFmt, extradata, codecName_, frame, chunk>>
paramVars == <<config, opened>>
pipeVars == <<encodeVars, swsCtx, paramVars>>
vars == <<kind, codecDelay, calls, cpc, crashed, lastErr, sessionVars, channelVars,
          ghostVars, selVars, pipeVars>>

\* ------------------------------------------------------------ helpers
Range(s) == {s[i] : i \in 1..Len(s)}

\* a worker that keeps queueMutex_ locked while it processes the job it popped
MutexHeldWhileProcessing ==
    \A w \in Workers : wpc[w] \notin {"prewait", "send", "recv", "fsend", "frecv"}

\* queueMutex_ is held across a worker's predicate test until it blocks
MutexFree == \A w \in Workers : wpc[w] # "prewait"

\* the predicate of queueCV_.wait
WaitPredicate == jobQueue # <<>> \/ ~running

\* queueCV_.notify_one(): one sleeping worker, if any, becomes runnable
NotifyOne(p) ==
    IF \E w \in Workers : p[w] = "waiting"
    THEN {[p EXCEPT ![w] = "lock"] : w \in {x \in Workers : p[x] = "waiting"}}
    ELSE {p}

\* queueCV_.notify_all()
NotifyAll(p) == [w \in Workers |-> IF p[w] = "waiting" THEN "lock" ELSE p[w]]

LiveWorkers == {w \in Workers : wpc[w] \notin {"none", "exited"}}
ProcPcs == {"send", "recv", "fsend", "frecv", "fdone"}
InFlight == {wjob[w] : w \in {x \in Workers : wpc[x] \in ProcPcs}}

\* a job as it is queued; the caller stamps its chunks and frames in the order
\* it submits them, each with a timestamp and a duration of its own
Job(id, isFlush, fault) ==
    [id |-> id, isFlush |-> isFlush, fault |-> fault,
     timestamp |-> IF isFlush THEN 0 ELSE id,
     duration |-> IF isFlush THEN 0 ELSE MaxJobs + id]

\* a call queued on a thread-safe function
\* kind: "out" | "err" | "flush"; job: the job the result belongs to; during: the
\* job the worker was processing; seq: serial number of a codec output; cb: the
\* flush callback; msg: what the callback reads as the error message; how: the
\* call that queued it; stamp: the timestamp and duration handed to the callback
Call(k, j, d, s, cb, msg, how, stamp) ==
    [kind |-> k, job |-> j, during |-> d, seq |-> s, cb |-> cb, msg |-> msg,
     how |-> how, timestamp |-> stamp.timestamp, duration |-> stamp.duration]

\* error and flush-complete callbacks take no timestamp
NoStamp == [timestamp |-> 0, duration |-> 0]

\* a flush that hands its results over with BlockingCall
FlushHandoffBlocking == "BlockingCall"

\* the call that queues a result on a thread-safe function: BlockingCall while
\* an encode/decode job is processed, NonBlockingCall while a flush job is
JobHandoff == "BlockingCall"
FlushHandoff == "NonBlockingCall"

\* ------------------------------------------------------------ the codec
\* avcodec_send_frame / avcodec_send_packet reject the input
SendFails(j) == codecCtx # "open" \/ codecEof \/ submitted[j].fault = "send"

\* avcodec_receive_packet / avcodec_receive_frame have something to return
ReceiveReady == codecBuf # <<>> /\ (codecEof \/ Len(codecBuf) > codecDelay)

\* ... and what they return is an error
ReceiveFails == ReceiveReady /\ submitted[Head(codecBuf)].fault = "recv"

\* ------------------------------------------------------------ the selector
\* (hw_accel.cpp, as built for Linux)
\* the codec strings the configure calls are made with
CodecStrings ==
    {"avc1.42E01E", "hevc", "vp8", "vp09.00.10.08", "av01.0.04M.08", "h264_nvenc",
     "vp8_cuvid", "mpeg4"}

\* the characters of a codec string, and of the patterns getCodecType looks for
Chars ==
    ("avc1.42E01E" :> <<"a", "v", "c", "1", ".", "4", "2", "E", "0", "1", "E">>)
    @@ ("vp8" :> <<"v", "p", "8">>)
    @@ ("vp09.00.10.08" :> <<"v", "p", "0", "9", ".", "0", "0", ".", "1", "0", ".", "0", "8">>)
    @@ ("av01.0.04M.08" :> <<"a", "v", "0", "1", ".", "0", ".", "0", "4", "M", ".", "0", "8">>)
    @@ ("h264_nvenc" :> <<"h", "2", "6", "4", "_", "n", "v", "e", "n", "c">>)
    @@ ("hevc" :> <<"h", "e", "v", "c">>)
    @@ ("vp8_cuvid" :> <<"v", "p", "8", "_", "c", "u", "v", "i", "d">>)
    @@ ("mpeg4" :> <<"m", "p", "e", "g", "4">>)
    @@ ("avc1" :> <<"a", "v", "c", "1">>)
    @@ ("avc3" :> <<"a", "v", "c", "3">>)
    @@ ("hvc1" :> <<"h", "v", "c", "1">>)
    @@ ("hev1" :> <<"h", "e", "v", "1">>)
    @@ ("vp09" :> <<"v", "p", "0", "9">>)
    @@ ("av01" :> <<"a", "v", "0", "1">>)
    @@ ("h264_" :> <<"h", "2", "6", "4", "_">>)
    @@ ("hevc_" :> <<"h", "e", "v", "c", "_">>)
    @@ ("vp9" :> <<"v", "p", "9">>)
    @@ ("av1" :> <<"a", "v", "1">>)
    @@ ("avc3.640028" :> <<"a", "v", "c", "3", ".", "6", "4", "0", "0", "2", "8">>)
    @@ ("hvc1.1.6.L93.B0" :> <<"h", "v", "c", "1", ".", "1", ".", "6", ".", "L", "9",
            "3", ".", "B", "0">>)
    @@ ("hev1.1.6.L93.B0" :> <<"h", "e", "v", "1", ".", "1", ".", "6", ".", "L", "9",
            "3", ".", "B", "0">>)
    @@ ("h264_vaapi" :> <<"h", "2", "6", "4", "_", "v", "a", "a", "p", "i">>)
    @@ ("h264_qsv" :> <<"h", "2", "6", "4", "_", "q", "s", "v">>)
    @@ ("h264_v4l2m2m" :> <<"h", "2", "6", "4", "_", "v", "4", "l", "2", "m", "2", "m">>)
    @@ ("libx264" :> <<"l", "i", "b", "x", "2", "6", "4">>)
    @@ ("hevc_nvenc" :> <<"h", "e", "v", "c", "_", "n", "v", "e", "n", "c">>)
    @@ ("hevc_vaapi" :> <<"h", "e", "v", "c", "_", "v", "a", "a", "p", "i">>)
    @@ ("hevc_qsv" :> <<"h", "e", "v", "c", "_", "q", "s", "v">>)
    @@ ("libx265" :> <<"l", "i", "b", "x", "2", "6", "5">>)
    @@ ("libvpx" :> <<"l", "i", "b", "v", "p", "x">>)
    @@ ("vp9_vaapi" :> <<"v", "p", "9", "_", "v", "a", "a", "p", "i">>)
    @@ ("vp9_qsv" :> <<"v", "p", "9", "_", "q", "s", "v">>)
    @@ ("libvpx-vp9" :> <<"l", "i", "b", "v", "p", "x", "-", "v", "p", "9">>)
    @@ ("av1_nvenc" :> <<"a", "v", "1", "_", "n", "v", "e", "n", "c">>)
    @@ ("av1_vaapi" :> <<"a", "v", "1", "_", "v", "a", "a", "p", "i">>)
    @@ ("av1_qsv" :> <<"a", "v", "1", "_", "q", "s", "v">>)
    @@ ("libsvtav1" :> <<"l", "i", "b", "s", "v", "t", "a", "v", "1">>)
    @@ ("libaom-av1" :> <<"l", "i", "b", "a", "o", "m", "-", "a", "v", "1">>)
    @@ ("h264_cuvid" :> <<"h", "2", "6", "4", "_", "c", "u", "v", "i", "d">>)
    @@ ("h264" :> <<"h", "2", "6", "4">>)
    @@ ("hevc_cuvid" :> <<"h", "e", "v", "c", "_", "c", "u", "v", "i", "d">>)
    @@ ("vp9_cuvid" :> <<"v", "p", "9", "_", "c", "u", "v", "i", "d">>)
    @@ ("av1_cuvid" :> <<"a", "v", "1", "_", "c", "u", "v", "i", "d">>)
    @@ ("libdav1d" :> <<"l", "i", "b", "d", "a", "v", "1", "d">>)
    @@ ("h264_videotoolbox" :> <<"h", "2", "6", "4", "_", "v", "i", "d", "e", "o", "t",
            "o", "o", "l", "b", "o", "x">>)
    @@ ("h264_mf" :> <<"h", "2", "6", "4", "_", "m", "f">>)
    @@ ("h264_amf" :> <<"h", "2", "6", "4", "_", "a", "m", "f">>)
    @@ ("hevc_videotoolbox" :> <<"h", "e", "v", "c", "_", "v", "i", "d", "e", "o", "t",
            "o", "o", "l", "b", "o", "x">>)
    @@ ("hevc_mf" :> <<"h", "e", "v", "c", "_", "m", "f">>)
    @@ ("hevc_amf" :> <<"h", "e", "v", "c", "_", "a", "m", "f">>)
    @@ ("av1_amf" :> <<"a", "v", "1", "_", "a", "m", "f">>)

\* std::string::find: position of the first occurrence of p in s, -1 for npos
find(s, p) ==
    LET S == Chars[s]
        P == Chars[p]
        hits == {i \in 0..(Len(S) - Len(P)) : SubSeq(S, i + 1, i + Len(P)) = P}
    IN  IF hits = {} THEN -1 ELSE CHOOSE i \in hits : \A k \in hits : i <= k

\* a normalisation that knows the standard tags only
getCodecTypeTagsOnly(s) ==
    IF find(s, "avc1") = 0 \/ find(s, "avc3") = 0 THEN "h264"
    ELSE IF find(s, "hvc1") = 0 \/ find(s, "hev1") = 0 THEN "hevc"
    ELSE IF s = "vp8" THEN "vp8"
    ELSE IF find(s, "vp09") = 0 \/ s = "vp9" THEN "vp9"
    ELSE IF find(s, "av01") = 0 THEN "av1"
    ELSE s

getCodecType(s) ==
    IF find(s, "avc1") = 0 \/ find(s, "avc3") = 0 THEN "h264"
    ELSE IF find(s, "hvc1") = 0 \/ find(s, "hev1") = 0 THEN "hevc"
    ELSE IF s = "vp8" THEN "vp8"
    ELSE IF find(s, "vp09") = 0 \/ s = "vp9" THEN "vp9"
    ELSE IF find(s, "av01") = 0 THEN "av1"
    ELSE IF s = "libx264" \/ s = "h264" \/ find(s, "h264_") = 0 THEN "h264"
    ELSE IF s = "libx265" \/ s = "hevc" \/ find(s, "hevc_") = 0 THEN "hevc"
    ELSE IF s = "libvpx" \/ find(s, "vp8") # -1 THEN "vp8"
    ELSE IF s = "libvpx-vp9" \/ find(s, "vp9") # -1 THEN "vp9"
    ELSE IF s = "libaom-av1" \/ s = "libsvtav1" \/ find(s, "av1") # -1 THEN "av1"
    ELSE s

\* one EncoderMapping
Mapping(n, t, f) == [hwEncoder |-> n, type |-> t, preferredFormat |-> f]

h264Encoders ==
    <<Mapping("h264_nvenc", "NVENC", "NV12"), Mapping("h264_vaapi", "VAAPI", "VAAPI"),
      Mapping("h264_qsv", "QSV", "NV12"), Mapping("h264_v4l2m2m", "V4L2M2M", "YUV420P"),
      Mapping("libx264", "None", "YUV420P")>>

hevcEncoders ==
    <<Mapping("hevc_nvenc", "NVENC", "NV12"), Mapping("hevc_vaapi", "VAAPI", "VAAPI"),
      Mapping("hevc_qsv", "QSV", "NV12"), Mapping("libx265", "None", "YUV420P")>>

vp8Encoders == <<Mapping("libvpx", "None", "YUV420P")>>

vp9Encoders ==
    <<Mapping("vp9_vaapi", "VAAPI", "VAAPI"), Mapping("vp9_qsv", "QSV", "NV12"),
      Mapping("libvpx-vp9", "None", "YUV420P")>>

av1Encoders ==
    <<Mapping("av1_nvenc", "NVENC", "NV12"), Mapping("av1_vaapi", "VAAPI", "VAAPI"),
      Mapping("av1_qsv", "QSV", "NV12"), Mapping("libsvtav1", "None", "YUV420P"),
      Mapping("libaom-av1", "None", "YUV420P")>>

h264Decoders ==
    <<Mapping("h264_cuvid", "CUVID", "NV12"), Mapping("h264_vaapi", "VAAPI", "VAAPI"),
      Mapping("h264_qsv", "QSV", "NV12"), Mapping("h264", "None", "YUV420P")>>

hevcDecoders ==
    <<Mapping("hevc_cuvid", "CUVID", "NV12"), Mapping("hevc_vaapi", "VAAPI", "VAAPI"),
      Mapping("hevc_qsv", "QSV", "NV12"), Mapping("hevc", "None", "YUV420P")>>

vp9Decoders ==
    <<Mapping("vp9_cuvid", "CUVID", "NV12"), Mapping("vp9_vaapi", "VAAPI", "VAAPI"),
      Mapping("vp9_qsv", "QSV", "NV12"), Mapping("vp9", "None", "YUV420P")>>

av1Decoders ==
    <<Mapping("av1_cuvid", "CUVID", "NV12"), Mapping("av1_vaapi", "VAAPI", "VAAPI"),
      Mapping("av1_qsv", "QSV", "NV12"), Mapping("libdav1d", "None", "YUV420P"),
      Mapping("libaom-av1", "None", "YUV420P")>>

getEncoderList(codecType) ==
    IF codecType = "h264" THEN h264Encoders
    ELSE IF codecType = "hevc" THEN hevcEncoders
    ELSE IF codecType = "vp8" THEN vp8Encoders
    ELSE IF codecType = "vp9" THEN vp9Encoders
    ELSE IF codecType = "av1" THEN av1Encoders
    ELSE <<>>

getDecoderList(codecType) ==
    IF codecType = "h264" THEN h264Decoders
    ELSE IF codecType = "hevc" THEN hevcDecoders
    ELSE IF codecType = "vp9" THEN vp9Decoders
    ELSE IF codecType = "av1" THEN av1Decoders
    ELSE <<>>

\* avcodec_find_encoder_by_name / avcodec_find_decoder_by_name find the name
isEncoderAvailable(encoderName) == encoderName \in registry
isDecoderAvailable(decoderName) == decoderName \in registry

\* EncoderInfo / DecoderInfo as the selectors initialise them: codec == nullptr
NotFound ==
    [found |-> FALSE, name |-> "", hwType |-> "None", format |-> "YUV420P",
     hwFrames |-> FALSE]

\* the entry a selector returns for mapping m
Info(m, t, frames) ==
    [found |-> TRUE, name |-> m.hwEncoder, hwType |-> t, format |-> m.preferredFormat,
     hwFrames |-> frames]

\* smallest and largest member of a non-empty set of list positions
\* a forward scan that keeps going and answers with the last hit
LastHit(S) == CHOOSE i \in S : \A j \in S : j <= i
First(S) == CHOOSE i \in S : \A k \in S : i <= k
Last(S) == CHOOSE i \in S : \A k \in S : k <= i

\* the scans of selectEncoder over its list: nothing for an empty list; with
\* PreferSoftware the registered software entry found first scanning from the
\* end; otherwise, or when that scan found nothing, the first registered entry
\* from the front that the preference admits
ScanEncoders(encoders, preference) ==
    LET rev == {i \in 1..Len(encoders) :
                   encoders[i].type = "None" /\ isEncoderAvailable(encoders[i].hwEncoder)}
        fwd == {i \in 1..Len(encoders) :
                   /\ ~(preference = "PreferSoftware" /\ encoders[i].type # "None")
                   /\ isEncoderAvailable(encoders[i].hwEncoder)}
    IN  IF encoders = <<>> THEN NotFound
        ELSE IF preference = "PreferSoftware" /\ rev # {}
        THEN Info(encoders[Last(rev)], "None", FALSE)
        ELSE IF fwd # {}
        THEN Info(encoders[First(fwd)], encoders[First(fwd)].type,
                  encoders[First(fwd)].type = "VAAPI")
        ELSE NotFound

selectEncoder(codecStr, preference) ==
    CHOOSE info \in {ScanEncoders(encoders, preference) :
                        encoders \in {getEncoderList(getCodecType(codecStr))}} : TRUE

\* the scans of selectDecoder: the same two; for an empty list the decoder that
\* avcodec_find_decoder_by_name finds under the codec string itself
ScanDecoders(decoders, codecStr, preference) ==
    LET rev == {i \in 1..Len(decoders) :
                   decoders[i].type = "None" /\ isDecoderAvailable(decoders[i].hwEncoder)}
        fwd == {i \in 1..Len(decoders) :
                   /\ ~(preference = "PreferSoftware" /\ decoders[i].type # "None")
                   /\ isDecoderAvailable(decoders[i].hwEncoder)}
    IN  IF decoders = <<>>
        THEN IF isDecoderAvailable(codecStr)
             THEN [NotFound EXCEPT !.found = TRUE, !.name = codecStr]
             ELSE NotFound
        ELSE IF preference = "PreferSoftware" /\ rev # {}
        THEN Info(decoders[Last(rev)], "None", FALSE)
        ELSE IF fwd # {}
        THEN Info(decoders[First(fwd)], decoders[First(fwd)].type,
                  decoders[First(fwd)].type # "None")
        ELSE NotFound

selectDecoder(codecStr, preference) ==
    CHOOSE info \in {ScanDecoders(decoders, codecStr, preference) :
                        decoders \in {getDecoderList(getCodecType(codecStr))}} : TRUE

\* the members as the constructor leaves them, with nothing queued or delivered
SessionInit ==
    /\ cpc = "idle"
    /\ crashed = FALSE
    /\ lastErr = ""
    /\ configured = FALSE
    /\ running = FALSE
    /\ flushPending = FALSE
    /\ tsfnFlush = 0
    /\ workerThread = 0
    /\ codecCtx = "null"
    /\ hwType = "None"
    /\ hwDeviceCtx = FALSE
    /\ hwFramesCtx = FALSE
    /\ jobQueue = <<>>
    /\ wpc = [w \in Workers |-> "none"]
    /\ wjob = [w \in Workers |-> 0]
    /\ codecBuf = <<>>
    /\ codecEof = FALSE
    /\ chOutput = <<>>
    /\ chError = <<>>
    /\ chFlush = <<>>
    /\ delivered = <<>>
    /\ syncFlush = 0
    /\ submitted = <<>>
    /\ processed = <<>>
    /\ discarded = {}
    /\ closeDropped = {}
    /\ atReset = {}
    /\ sendOk = {}
    /\ nProduced = 0
    /\ joins = 0
    /\ calls = 0
    /\ lifecycle = "Unconfigured"

\* no frame built and no packet received yet
\* swsCtx_ == nullptr
NullCtx ==
    [srcW |-> 0, srcH |-> 0, srcFormat |-> "NONE", dstW |-> 0, dstH |-> 0,
     dstFormat |-> "NONE"]
NoFrame ==
    [op |-> "idle", src |-> [format |-> "NONE", width |-> 0, height |-> 0],
     target |-> "NONE", ctx |-> NullCtx,
     created |-> FALSE, sent |-> FALSE, err |-> FALSE]
NoChunk == [built |-> FALSE, isKeyframe |-> FALSE, hasExtradata |-> FALSE, flush |-> FALSE]

\* the encode pipeline of a constructed session: width_(0), height_(0),
\* alpha_(false), swsCtx_(nullptr), no codec context
PipeIdle ==
    /\ width = 0 /\ height = 0 /\ alpha = FALSE
    /\ pixFmt = "NONE" /\ extradata = FALSE /\ codecName_ = ""
    /\ swsCtx = NullCtx /\ frame = NoFrame /\ chunk = NoChunk

\* a session of either class, over a codec of any latency; the selection made by
\* its configure calls is drawn from RunConfigs, so the selector's inputs are idle
\* no configure call yet: no arguments, no opened codec context
NoConfig ==
    [width |-> 0, height |-> 0, bitrateMode |-> "variable", bitrate |-> 0,
     framerate |-> 0, alpha |-> FALSE, latencyMode |-> "quality"]
NoParams ==
    [codec |-> "", bit_rate |-> 0, rc_min_rate |-> 0, rc_max_rate |-> 0,
     rc_buffer_size |-> 0, gop_size |-> 0, framerate |-> 0, max_b_frames |-> 0,
     pix_fmt |-> "NONE", lowDelay |-> FALSE, opts |-> {}]
NotOpened == [path |-> "none", params |-> NoParams]
ParamIdle == config = NoConfig /\ opened = NotOpened

Init ==
    /\ kind \in Kinds
    /\ codecDelay \in 0..MaxDelay
    /\ SessionInit
    /\ codecString = "libx264"
    /\ hwPref = "NoPreference"
    /\ registry = {}
    /\ selInfo = NotFound
    /\ PipeIdle
    /\ ParamIdle

CallerIdle == cpc = "idle" /\ ~crashed

\* =================================================================
\* Caller thread
\* =================================================================

\* the slot the next std::thread runs in
FreeSlot ==
    CHOOSE s \in Workers :
        /\ wpc[s] \in {"none", "exited"} /\ s # workerThread
        /\ \A t \in Workers :
              (wpc[t] \in {"none", "exited"} /\ t # workerThread) => s <= t

\* Configure without the software fallback: a failed open is final
EncOutcomeNoFallback(cfg) ==
    LET hw == cfg.sel = "hw"
        ok == (cfg.sel # "none" \/ cfg.byName) /\ cfg.svcOk /\ cfg.openOk
    IN  [ok |-> ok, ctx |-> IF ok THEN "open" ELSE "null",
         typ |-> IF hw THEN "hw" ELSE "None", dev |-> hw /\ cfg.hwDev,
         frm |-> hw /\ cfg.reqFrames /\ cfg.hwDev /\ cfg.hwFrm]

\* Configure that tries the software candidate after every failed open
EncOutcomeAlwaysFallback(cfg) ==
    LET hw == cfg.sel = "hw"
        found == cfg.sel # "none" \/ cfg.byName
        retry == found /\ cfg.svcOk /\ ~cfg.openOk /\ cfg.swSel
        ok == found /\ cfg.svcOk /\ (cfg.openOk \/ (cfg.swSel /\ cfg.swOpenOk))
    IN  [ok |-> ok, ctx |-> IF ok THEN "open" ELSE "null",
         typ |-> IF hw /\ ~retry THEN "hw" ELSE "None",
         dev |-> hw /\ ~retry /\ cfg.hwDev,
         frm |-> hw /\ ~retry /\ cfg.reqFrames /\ cfg.hwDev /\ cfg.hwFrm]

\* Configure, from the open of the codec on: what the session holds afterwards.
\* cfg is the environment of the call: sel (what selectEncoder returned), pref,
\* byName (avcodec_find_encoder_by_name finds the codec), hwDev, reqFrames, hwFrm
\* (hardware device / frame pool creation), svcOk, openOk, swSel, swOpenOk.
EncOutcome(cfg) ==
    LET hw == cfg.sel = "hw"
        dev == IF hw THEN cfg.hwDev ELSE hwDeviceCtx
        frm == IF hw /\ cfg.reqFrames /\ dev THEN cfg.hwFrm ELSE hwFramesCtx
        typ == IF hw THEN "hw" ELSE "None"
    IN  IF cfg.sel = "none" /\ ~cfg.byName
        THEN [ok |-> FALSE, ctx |-> codecCtx, typ |-> hwType,
              dev |-> hwDeviceCtx, frm |-> hwFramesCtx]
        ELSE IF ~cfg.svcOk
        THEN [ok |-> FALSE, ctx |-> "alloc", typ |-> typ, dev |-> dev, frm |-> frm]
        ELSE IF cfg.openOk
        THEN [ok |-> TRUE, ctx |-> "open", typ |-> typ, dev |-> dev, frm |-> frm]
        ELSE IF hw /\ cfg.pref # "PreferHardware"
        THEN IF cfg.swSel
             THEN [ok |-> cfg.swOpenOk,
                   ctx |-> IF cfg.swOpenOk THEN "open" ELSE "null",
                   typ |-> "None", dev |-> FALSE, frm |-> FALSE]
             ELSE [ok |-> FALSE, ctx |-> "null", typ |-> typ,
                   dev |-> FALSE, frm |-> FALSE]
        ELSE [ok |-> FALSE, ctx |-> "null", typ |-> typ, dev |-> dev, frm |-> frm]

\* VideoDecoderAsync::Configure: byName = a decoder was found, openOk = it opened
DecOutcome(cfg) ==
    IF ~cfg.byName
    THEN [ok |-> FALSE, ctx |-> codecCtx, typ |-> hwType,
          dev |-> hwDeviceCtx, frm |-> hwFramesCtx]
    ELSE [ok |-> cfg.openOk, ctx |-> IF cfg.openOk THEN "open" ELSE "null",
          typ |-> hwType, dev |-> hwDeviceCtx, frm |-> hwFramesCtx]

\* the environments a Configure call can meet
EncConfigs ==
    {c \in [pref : Prefs, sel : {"hw", "sw", "none"}, byName : BOOLEAN,
            hwDev : BOOLEAN, reqFrames : BOOLEAN, hwFrm : BOOLEAN, svcOk : BOOLEAN,
            openOk : BOOLEAN, swSel : BOOLEAN, swOpenOk : BOOLEAN] :
        /\ (c.pref = "PreferSoftware" => c.sel # "hw")
        /\ (c.sel # "none" => c.byName)
        /\ (c.sel # "hw" => ~c.hwDev /\ ~c.reqFrames /\ ~c.swSel /\ ~c.swOpenOk)
        /\ (~c.reqFrames => ~c.hwFrm)
        /\ (~c.swSel => ~c.swOpenOk)}

DecConfigs ==
    [pref : {"NoPreference"}, sel : {"sw", "none"}, byName : BOOLEAN,
     hwDev : {FALSE}, reqFrames : {FALSE}, hwFrm : {FALSE}, svcOk : {TRUE},
     openOk : BOOLEAN, swSel : {FALSE}, swOpenOk : {FALSE}]

\* the environments met in the runs of the session: a software codec that opens
\* or fails to open and, for the encoder, a hardware codec that opens with its
\* device and frame pool
SwConfig(ok) ==
    [pref |-> "NoPreference", sel |-> "sw", byName |-> TRUE, hwDev |-> FALSE,
     reqFrames |-> FALSE, hwFrm |-> FALSE, svcOk |-> TRUE, openOk |-> ok,
     swSel |-> FALSE, swOpenOk |-> FALSE]

HwConfig ==
    [pref |-> "NoPreference", sel |-> "hw", byName |-> TRUE, hwDev |-> TRUE,
     reqFrames |-> TRUE, hwFrm |-> TRUE, svcOk |-> TRUE, openOk |-> TRUE,
     swSel |-> FALSE, swOpenOk |-> FALSE]

RunConfigs ==
    IF kind = "dec" THEN {SwConfig(TRUE), SwConfig(FALSE)}
    ELSE {SwConfig(TRUE), SwConfig(FALSE), HwConfig}

Outcome(cfg) == IF kind = "enc" THEN EncOutcome(cfg) ELSE DecOutcome(cfg)

\* configure(config): select, allocate, open (with the software fallback), then
\* set configured_ and running_ and start the worker thread
Configure(cfg) ==
    /\ CallerIdle
    /\ calls < MaxCalls
    /\ calls' = calls + 1
    /\ LET o == Outcome(cfg) IN
        /\ codecCtx' = o.ctx
        /\ hwType' = o.typ
        /\ hwDeviceCtx' = o.dev
        /\ hwFramesCtx' = o.frm
        /\ \* a context that Configure replaced or freed holds no frames
           codecBuf' = IF o.ctx = codecCtx /\ ~o.ok THEN codecBuf ELSE <<>>
        /\ codecEof' = IF o.ctx = codecCtx /\ ~o.ok THEN codecEof ELSE FALSE
        /\ IF o.ok
           THEN /\ configured' = TRUE
                /\ running' = TRUE
                /\ wpc' = [wpc EXCEPT ![FreeSlot] = "test"]
                /\ lastErr' = ""
                /\ lifecycle' = "Configured"
                /\ IF workerThread = 0
                   THEN workerThread' = FreeSlot /\ cpc' = "idle"
                   ELSE workerThread' = workerThread /\ cpc' = "cfg_assign"
           ELSE /\ lastErr' = "ConfigureError"
                /\ UNCHANGED <<configured, running, wpc, lifecycle, workerThread, cpc>>
    /\ UNCHANGED selVars
    /\ UNCHANGED <<kind, codecDelay, crashed, flushPending, tsfnFlush, jobQueue, wjob,
                   channelVars, submitted, processed, discarded, closeDropped, atReset,
                   sendOk, nProduced, joins>>

ConfigureCall ==
    /\ \E cfg \in RunConfigs : Configure(cfg)
    /\ UNCHANGED pipeVars

\* workerThread_ = std::thread(...) while workerThread_ is joinable: std::terminate
ConfigureTerminate ==
    /\ cpc = "cfg_assign" /\ ~crashed
    /\ crashed' = TRUE
    /\ UNCHANGED <<selVars, pipeVars>>
    /\ UNCHANGED <<kind, codecDelay, calls, cpc, lastErr, sessionVars, channelVars, ghostVars>>

\* Submit without the test of configured_
SubmitUnguarded(fault) ==
    /\ CallerIdle
    /\ Len(submitted) < MaxJobs
    /\ MutexFree
    /\ LET id == Len(submitted) + 1 IN
        /\ jobQueue' = Append(jobQueue, id)
        /\ submitted' = Append(submitted, Job(id, FALSE, fault))
    /\ wpc' \in NotifyOne(wpc)
    /\ lastErr' = ""
    /\ UNCHANGED <<selVars, pipeVars>>
    /\ UNCHANGED <<kind, codecDelay, calls, cpc, crashed, configured, running,
                   flushPending, tsfnFlush, workerThread, codecCtx, hwType, hwDeviceCtx,
                   hwFramesCtx, wjob, codecBuf, codecEof, channelVars, processed,
                   discarded, closeDropped, atReset, sendOk, nProduced, joins, lifecycle>>

\* a submit that pushes without taking queueMutex_
SubmitNoMutex(fault) ==
    /\ CallerIdle
    /\ IF ~configured
       THEN /\ lastErr' = "NotConfigured"
            /\ UNCHANGED <<jobQueue, wpc, submitted>>
       ELSE /\ Len(submitted) < MaxJobs
            /\ LET id == Len(submitted) + 1 IN
                /\ jobQueue' = Append(jobQueue, id)
                /\ submitted' = Append(submitted, Job(id, FALSE, fault))
            /\ wpc' \in NotifyOne(wpc)
            /\ lastErr' = ""
    /\ UNCHANGED <<selVars, pipeVars>>
    /\ UNCHANGED <<kind, codecDelay, calls, cpc, crashed, configured, running, flushPending,
                   tsfnFlush, workerThread, codecCtx, hwType, hwDeviceCtx, hwFramesCtx,
                   wjob, codecBuf, codecEof, channelVars, processed, discarded,
                   closeDropped, atReset, sendOk, nProduced, joins, lifecycle>>

\* encode(frame, ...) / decode(chunk, ...)
Submit(fault) ==
    /\ CallerIdle
    /\ IF ~configured
       THEN /\ lastErr' = "NotConfigured"
            /\ UNCHANGED <<jobQueue, wpc, submitted>>
       ELSE /\ Len(submitted) < MaxJobs
            /\ MutexFree
            /\ LET id == Len(submitted) + 1 IN
                /\ jobQueue' = Append(jobQueue, id)
                /\ submitted' = Append(submitted, Job(id, FALSE, fault))
            /\ wpc' \in NotifyOne(wpc)
            /\ lastErr' = ""
    /\ UNCHANGED <<selVars, pipeVars>>
    /\ UNCHANGED <<kind, codecDelay, calls, cpc, crashed, configured, running, flushPending,
                   tsfnFlush, workerThread, codecCtx, hwType, hwDeviceCtx, hwFramesCtx,
                   wjob, codecBuf, codecEof, channelVars, processed, discarded,
                   closeDropped, atReset, sendOk, nProduced, joins, lifecycle>>

\* Flush without the test of configured_
FlushUnguarded ==
    /\ CallerIdle
    /\ Len(submitted) < MaxJobs
    /\ MutexFree
    /\ LET id == Len(submitted) + 1 IN
        /\ tsfnFlush' = id
        /\ jobQueue' = Append(jobQueue, id)
        /\ submitted' = Append(submitted, Job(id, TRUE, "none"))
    /\ flushPending' = TRUE
    /\ wpc' \in NotifyOne(wpc)
    /\ lastErr' = ""
    /\ UNCHANGED <<selVars, pipeVars>>
    /\ UNCHANGED <<kind, codecDelay, calls, cpc, crashed, configured, running, workerThread,
                   codecCtx, hwType, hwDeviceCtx, hwFramesCtx, wjob, codecBuf, codecEof,
                   channelVars, processed, discarded,
                   closeDropped, atReset, sendOk, nProduced, joins, lifecycle>>

\* flush(onComplete)
Flush ==
    /\ CallerIdle
    /\ IF ~configured
       THEN /\ syncFlush < MaxSyncFlush
            /\ syncFlush' = syncFlush + 1
            /\ UNCHANGED <<jobQueue, wpc, submitted, tsfnFlush, flushPending>>
       ELSE /\ Len(submitted) < MaxJobs
            /\ MutexFree
            /\ LET id == Len(submitted) + 1 IN
                /\ tsfnFlush' = id
                /\ jobQueue' = Append(jobQueue, id)
                /\ submitted' = Append(submitted, Job(id, TRUE, "none"))
            /\ flushPending' = TRUE
            /\ wpc' \in NotifyOne(wpc)
            /\ syncFlush' = syncFlush
    /\ lastErr' = ""
    /\ UNCHANGED <<selVars, pipeVars>>
    /\ UNCHANGED <<kind, codecDelay, calls, cpc, crashed, configured, running, workerThread,
                   codecCtx, hwType, hwDeviceCtx, hwFramesCtx, wjob, codecBuf, codecEof,
                   chOutput, chError, chFlush, delivered, processed, discarded,
                   closeDropped, atReset, sendOk, nProduced, joins, lifecycle>>

\* reset(), first half: clear the queue under the mutex
ResetClear ==
    /\ CallerIdle
    /\ calls < MaxCalls
    /\ calls' = calls + 1
    /\ MutexFree
    /\ jobQueue' = <<>>
    /\ discarded' = discarded \cup Range(jobQueue)
    /\ atReset' = atReset \cup InFlight
    /\ cpc' = "reset_flush"
    /\ lastErr' = ""
    /\ UNCHANGED <<selVars, pipeVars>>
    /\ UNCHANGED <<kind, codecDelay, crashed, configured, running, flushPending,
                   tsfnFlush, workerThread, codecCtx, hwType, hwDeviceCtx, hwFramesCtx,
                   wpc, wjob, codecBuf, codecEof, channelVars, submitted, processed,
                   closeDropped, sendOk, nProduced, joins, lifecycle>>

\* reset(), second half: avcodec_flush_buffers(codecCtx_) on the caller thread
ResetFlushBuffers ==
    /\ cpc = "reset_flush" /\ ~crashed
    /\ cpc' = "idle"
    /\ IF codecCtx = "null"
       THEN UNCHANGED <<codecBuf, codecEof, crashed>>
       ELSE IF codecCtx = "alloc"
       THEN crashed' = TRUE /\ UNCHANGED <<codecBuf, codecEof>>
       ELSE codecBuf' = <<>> /\ codecEof' = FALSE /\ crashed' = crashed
    /\ UNCHANGED <<selVars, pipeVars>>
    /\ UNCHANGED <<kind, codecDelay, calls, lastErr, configured, running, flushPending,
                   tsfnFlush, workerThread, codecCtx, hwType, hwDeviceCtx, hwFramesCtx,
                   jobQueue, wpc, wjob, channelVars, ghostVars>>

\* close() / ~VideoEncoderAsync(), first part: running_ = false; notify_all()
StopBegin(next) ==
    /\ CallerIdle
    /\ running' = FALSE
    /\ wpc' = NotifyAll(wpc)
    /\ cpc' = next
    /\ lastErr' = ""
    /\ UNCHANGED <<selVars, pipeVars>>
    /\ UNCHANGED <<kind, codecDelay, crashed, configured, flushPending, tsfnFlush,
                   workerThread, codecCtx, hwType, hwDeviceCtx, hwFramesCtx, jobQueue,
                   wjob, codecBuf, codecEof, channelVars, ghostVars>>

\* join() without the test of joinable(): std::system_error on a thread that is
\* not joinable
StopJoinUnchecked(from, next) ==
    /\ cpc = from /\ ~crashed
    /\ IF workerThread = 0
       THEN crashed' = TRUE /\ UNCHANGED <<workerThread, wpc, joins>>
       ELSE /\ wpc[workerThread] = "exited"
            /\ wpc' = [wpc EXCEPT ![workerThread] = "none"]
            /\ workerThread' = 0
            /\ joins' = joins + 1
            /\ crashed' = crashed
    /\ cpc' = next
    /\ UNCHANGED <<selVars, pipeVars>>
    /\ UNCHANGED <<kind, codecDelay, calls, lastErr, configured, running,
                   flushPending, tsfnFlush, codecCtx, hwType, hwDeviceCtx, hwFramesCtx,
                   jobQueue, wjob, codecBuf, codecEof, channelVars, submitted, processed,
                   discarded, closeDropped, atReset, sendOk, nProduced, lifecycle>>

\* detach() in place of join(): the caller does not wait for the worker to exit
StopJoinDetach(from, next) ==
    /\ cpc = from /\ ~crashed
    /\ workerThread' = 0
    /\ joins' = IF workerThread = 0 THEN joins ELSE joins + 1
    /\ cpc' = next
    /\ UNCHANGED <<selVars, pipeVars>>
    /\ UNCHANGED <<kind, codecDelay, calls, crashed, lastErr, configured, running,
                   flushPending, tsfnFlush, codecCtx, hwType, hwDeviceCtx, hwFramesCtx,
                   jobQueue, wpc, wjob, codecBuf, codecEof, channelVars, submitted,
                   processed, discarded, closeDropped, atReset, sendOk, nProduced,
                   lifecycle>>

\* if (workerThread_.joinable()) workerThread_.join();
StopJoin(from, next) ==
    /\ cpc = from /\ ~crashed
    /\ IF workerThread = 0
       THEN UNCHANGED <<workerThread, wpc, joins>>
       ELSE /\ wpc[workerThread] = "exited"
            /\ wpc' = [wpc EXCEPT ![workerThread] = "none"]
            /\ workerThread' = 0
            /\ joins' = joins + 1
    /\ cpc' = next
    /\ UNCHANGED <<selVars, pipeVars>>
    /\ UNCHANGED <<kind, codecDelay, calls, crashed, lastErr, configured, running,
                   flushPending, tsfnFlush, codecCtx, hwType, hwDeviceCtx, hwFramesCtx,
                   jobQueue, wjob, codecBuf, codecEof, channelVars, submitted, processed,
                   discarded, closeDropped, atReset, sendOk, nProduced, lifecycle>>

CloseBegin ==
    /\ calls < MaxCalls
    /\ calls' = calls + 1
    /\ StopBegin("close_join")
CloseJoin == StopJoin("close_join", "close_free")

\* close(), last part: clear the queue, free the contexts, configured_ = false
CloseRelease ==
    /\ cpc = "close_free" /\ ~crashed
    /\ MutexFree
    /\ jobQueue' = <<>>
    /\ closeDropped' = closeDropped \cup Range(jobQueue)
    /\ hwFramesCtx' = FALSE
    /\ hwDeviceCtx' = FALSE
    /\ codecCtx' = "null"
    /\ codecBuf' = <<>>
    /\ codecEof' = FALSE
    /\ configured' = FALSE
    /\ lifecycle' = "Closed"
    /\ cpc' = "idle"
    /\ swsCtx' = NullCtx
    /\ UNCHANGED <<selVars, encodeVars, paramVars>>
    /\ UNCHANGED <<kind, codecDelay, calls, crashed, lastErr, running, flushPending, tsfnFlush,
                   workerThread, hwType, wpc, wjob, channelVars, submitted, processed,
                   discarded, atReset, sendOk, nProduced, joins>>

DtorBegin == StopBegin("dtor_join") /\ UNCHANGED calls
DtorJoin == StopJoin("dtor_join", "dtor_free")

\* the destructor, last part: free the contexts, release the thread-safe functions
DtorRelease ==
    /\ cpc = "dtor_free" /\ ~crashed
    /\ hwFramesCtx' = FALSE
    /\ hwDeviceCtx' = FALSE
    /\ codecCtx' = "null"
    /\ codecBuf' = <<>>
    /\ codecEof' = FALSE
    /\ lifecycle' = "Destroyed"
    /\ cpc' = "destroyed"
    /\ swsCtx' = NullCtx
    /\ UNCHANGED <<selVars, encodeVars, paramVars>>
    /\ UNCHANGED <<kind, codecDelay, calls, crashed, lastErr, configured, running,
                   flushPending, tsfnFlush, workerThread, hwType, jobQueue, wpc, wjob,
                   channelVars, submitted, processed, discarded, closeDropped, atReset,
                   sendOk, nProduced, joins>>

\* =================================================================
\* Worker thread (WorkerThread, ProcessEncode/ProcessDecode, ProcessFlush)
\* =================================================================

\* while (running_)
W_Test(w) ==
    /\ wpc[w] = "test" /\ ~crashed
    /\ wpc' = [wpc EXCEPT ![w] = IF running THEN "lock" ELSE "exited"]
    /\ UNCHANGED <<selVars, pipeVars>>
    /\ UNCHANGED <<kind, codecDelay, calls, cpc, crashed, lastErr, configured, running,
                   flushPending, tsfnFlush, workerThread, codecCtx, hwType, hwDeviceCtx,
                   hwFramesCtx, jobQueue, wjob, codecBuf, codecEof, channelVars,
                   ghostVars>>

\* lock queueMutex_, test the wait predicate; when it holds: leave the loop on
\* (!running_ && empty), else pop the front job and unlock
W_Lock(w) ==
    /\ wpc[w] = "lock" /\ ~crashed
    /\ MutexFree
    /\ IF ~WaitPredicate
       THEN /\ wpc' = [wpc EXCEPT ![w] = "prewait"]
            /\ UNCHANGED <<jobQueue, wjob, processed>>
       ELSE IF jobQueue = <<>>
       THEN /\ wpc' = [wpc EXCEPT ![w] = "exited"]
            /\ UNCHANGED <<jobQueue, wjob, processed>>
       ELSE /\ wjob' = [wjob EXCEPT ![w] = Head(jobQueue)]
            /\ jobQueue' = Tail(jobQueue)
            /\ processed' = Append(processed, Head(jobQueue))
            /\ wpc' = [wpc EXCEPT ![w] =
                          IF submitted[Head(jobQueue)].isFlush THEN "fsend" ELSE "send"]
    /\ UNCHANGED <<selVars, pipeVars>>
    /\ UNCHANGED <<kind, codecDelay, calls, cpc, crashed, lastErr, configured, running,
                   flushPending, tsfnFlush, workerThread, codecCtx, hwType, hwDeviceCtx,
                   hwFramesCtx, codecBuf, codecEof, channelVars, submitted, discarded,
                   closeDropped, atReset, sendOk, nProduced, joins, lifecycle>>

\* queueCV_.wait: the predicate was false; release the mutex and sleep
W_Wait(w) ==
    /\ wpc[w] = "prewait" /\ ~crashed
    /\ wpc' = [wpc EXCEPT ![w] = "waiting"]
    /\ UNCHANGED <<selVars, pipeVars>>
    /\ UNCHANGED <<kind, codecDelay, calls, cpc, crashed, lastErr, configured, running,
                   flushPending, tsfnFlush, workerThread, codecCtx, hwType, hwDeviceCtx,
                   hwFramesCtx, jobQueue, wjob, codecBuf, codecEof, channelVars,
                   ghostVars>>

\* a condition variable may wake without a notification
SpuriousWake(w) ==
    /\ wpc[w] = "waiting" /\ ~crashed
    /\ wpc' = [wpc EXCEPT ![w] = "lock"]
    /\ UNCHANGED <<selVars, pipeVars>>
    /\ UNCHANGED <<kind, codecDelay, calls, cpc, crashed, lastErr, configured, running,
                   flushPending, tsfnFlush, workerThread, codecCtx, hwType, hwDeviceCtx,
                   hwFramesCtx, jobQueue, wjob, codecBuf, codecEof, channelVars,
                   ghostVars>>

\* ProcessEncode/ProcessDecode up to the send: return when codecCtx_ is null,
\* report a failed send through tsfnError_ (the result object is a local of the
\* function, the queued call keeps a pointer to it)
W_Send(w) ==
    /\ wpc[w] = "send" /\ ~crashed
    /\ LET j == wjob[w] IN
       IF codecCtx = "null"
       THEN /\ wpc' = [wpc EXCEPT ![w] = "test"]
            /\ wjob' = [wjob EXCEPT ![w] = 0]
            /\ UNCHANGED <<codecBuf, chError, sendOk>>
       ELSE IF SendFails(j)
       THEN /\ chError' = Append(chError, Call("err", j, j, 0, 0, "ref", JobHandoff, NoStamp))
            /\ wpc' = [wpc EXCEPT ![w] = "test"]
            /\ wjob' = [wjob EXCEPT ![w] = 0]
            /\ UNCHANGED <<codecBuf, sendOk>>
       ELSE /\ codecBuf' = Append(codecBuf, j)
            /\ sendOk' = sendOk \cup {j}
            /\ wpc' = [wpc EXCEPT ![w] = "recv"]
            /\ UNCHANGED <<wjob, chError>>
    /\ UNCHANGED <<selVars, pipeVars>>
    /\ UNCHANGED <<kind, codecDelay, calls, cpc, crashed, lastErr, configured, running,
                   flushPending, tsfnFlush, workerThread, codecCtx, hwType, hwDeviceCtx,
                   hwFramesCtx, jobQueue, codecEof, chOutput, chFlush, delivered,
                   syncFlush, submitted, processed, discarded, closeDropped, atReset,
                   nProduced, joins, lifecycle>>


\* the timestamp and duration the codec itself attaches to an output: a decoder
\* copies pts and duration of the packet the frame was decoded from; an encoder
\* copies the pts of the frame, whose duration the session never sets
FrameStamp(origin) ==
    [timestamp |-> submitted[origin].timestamp,
     duration |-> IF kind = "dec" THEN submitted[origin].duration ELSE 0]

\* a decode job that stamps an output with what its chunk was submitted with
ChunkStamp(j, origin) == FrameStamp(origin)

\* what a result queued while job j is processed carries: the encoder reads
\* packet->pts and packet->duration, the decoder job.timestamp and job.duration
JobStamp(j, origin) ==
    IF kind = "dec"
    THEN [timestamp |-> submitted[j].timestamp, duration |-> submitted[j].duration]
    ELSE FrameStamp(origin)

\* one turn of the receive loop of ProcessEncode/ProcessDecode
W_Recv(w) ==
    /\ wpc[w] = "recv" /\ ~crashed
    /\ LET j == wjob[w] IN
       IF codecCtx = "null"
       THEN /\ crashed' = TRUE
            /\ UNCHANGED <<wpc, wjob, codecBuf, chOutput, chError, nProduced>>
       ELSE IF codecCtx = "alloc" \/ ReceiveFails
       THEN /\ codecBuf' = IF codecCtx = "alloc" THEN codecBuf ELSE Tail(codecBuf)
            /\ chError' = IF kind = "dec"
                          THEN Append(chError, Call("err", j, j, 0, 0, "ref", JobHandoff, NoStamp))
                          ELSE chError
            /\ wpc' = [wpc EXCEPT ![w] = "test"]
            /\ wjob' = [wjob EXCEPT ![w] = 0]
            /\ UNCHANGED <<crashed, chOutput, nProduced>>
       ELSE IF ReceiveReady
       THEN /\ nProduced' = nProduced + 1
            /\ chOutput' = Append(chOutput,
                              Call("out", Head(codecBuf), j, nProduced + 1, 0, "",
                                   JobHandoff, JobStamp(j, Head(codecBuf))))
            /\ codecBuf' = Tail(codecBuf)
            /\ UNCHANGED <<crashed, wpc, wjob, chError>>
       ELSE /\ wpc' = [wpc EXCEPT ![w] = "test"]
            /\ wjob' = [wjob EXCEPT ![w] = 0]
            /\ UNCHANGED <<crashed, codecBuf, chOutput, chError, nProduced>>
    /\ UNCHANGED <<selVars, pipeVars>>
    /\ UNCHANGED <<kind, codecDelay, calls, cpc, lastErr, configured, running, flushPending,
                   tsfnFlush, workerThread, codecCtx, hwType, hwDeviceCtx, hwFramesCtx,
                   jobQueue, codecEof, chFlush, delivered, syncFlush, submitted,
                   processed, discarded, closeDropped, atReset, sendOk, joins, lifecycle>>

\* ProcessFlush up to the null frame/packet
W_FlushSend(w) ==
    /\ wpc[w] = "fsend" /\ ~crashed
    /\ IF codecCtx = "null"
       THEN /\ flushPending' = FALSE
            /\ wpc' = [wpc EXCEPT ![w] = "test"]
            /\ wjob' = [wjob EXCEPT ![w] = 0]
            /\ UNCHANGED codecEof
       ELSE /\ codecEof' = (codecCtx = "open")
            /\ wpc' = [wpc EXCEPT ![w] = "frecv"]
            /\ UNCHANGED <<flushPending, wjob>>
    /\ UNCHANGED <<selVars, pipeVars>>
    /\ UNCHANGED <<kind, codecDelay, calls, cpc, crashed, lastErr, configured, running,
                   tsfnFlush, workerThread, codecCtx, hwType, hwDeviceCtx, hwFramesCtx,
                   jobQueue, codecBuf, channelVars, ghostVars>>

\* one turn of the drain loop of ProcessFlush; when the loop ends, the completion
\* is queued on tsfnFlush_ and flushPending_ is cleared
W_FlushRecv(w) ==
    /\ wpc[w] = "frecv" /\ ~crashed
    /\ LET j == wjob[w] IN
       IF codecCtx = "null"
       THEN /\ crashed' = TRUE
            /\ UNCHANGED <<wpc, wjob, codecBuf, chOutput, chFlush, nProduced,
                           flushPending>>
       ELSE IF codecCtx = "open" /\ ReceiveReady /\ ~ReceiveFails
       THEN /\ nProduced' = nProduced + 1
            /\ chOutput' = Append(chOutput,
                              Call("out", Head(codecBuf), j, nProduced + 1, 0, "",
                                   FlushHandoff, FrameStamp(Head(codecBuf))))
            /\ codecBuf' = Tail(codecBuf)
            /\ UNCHANGED <<crashed, wpc, wjob, chFlush, flushPending>>
       ELSE /\ codecBuf' = IF codecCtx = "open" /\ ReceiveFails
                           THEN Tail(codecBuf) ELSE codecBuf
            /\ chFlush' = IF tsfnFlush # 0
                          THEN Append(chFlush,
                                      Call("flush", j, j, 0, tsfnFlush, "",
                                           FlushHandoff, NoStamp))
                          ELSE chFlush
            /\ flushPending' = FALSE
            /\ wpc' = [wpc EXCEPT ![w] = "test"]
            /\ wjob' = [wjob EXCEPT ![w] = 0]
            /\ UNCHANGED <<crashed, chOutput, nProduced>>
    /\ UNCHANGED <<selVars, pipeVars>>
    /\ UNCHANGED <<kind, codecDelay, calls, cpc, lastErr, configured, running, tsfnFlush,
                   workerThread, codecCtx, hwType, hwDeviceCtx, hwFramesCtx, jobQueue,
                   codecEof, chError, delivered, syncFlush, submitted, processed,
                   discarded, closeDropped, atReset, sendOk, joins, lifecycle>>

\* =================================================================
\* Callback dispatch on the caller thread (one call queue per thread-safe function)
\* =================================================================
CanDispatch == cpc \in {"idle", "destroyed"} /\ ~crashed

\* a dispatch that runs the callback and leaves the call queued
DispatchOutputKeep ==
    /\ CanDispatch
    /\ chOutput # <<>>
    /\ Len(delivered) < 2 * MaxJobs
    /\ delivered' = Append(delivered, Head(chOutput))
    /\ UNCHANGED <<selVars, pipeVars>>
    /\ UNCHANGED <<kind, codecDelay, calls, cpc, crashed, lastErr, sessionVars, chOutput,
                   chError, chFlush, syncFlush, ghostVars>>

DispatchOutput ==
    /\ CanDispatch
    /\ chOutput # <<>>
    /\ delivered' = Append(delivered, Head(chOutput))
    /\ chOutput' = Tail(chOutput)
    /\ UNCHANGED <<selVars, pipeVars>>
    /\ UNCHANGED <<kind, codecDelay, calls, cpc, crashed, lastErr, sessionVars, chError,
                   chFlush, syncFlush, ghostVars>>

\* the error callback reads the message through the pointer to the worker's local
\* result object, which is gone by now: it reads the message, or anything else, or
\* the process dies
DispatchError(m) ==
    /\ CanDispatch
    /\ chError # <<>>
    /\ IF m = "crash"
       THEN crashed' = TRUE /\ UNCHANGED <<delivered, chError>>
       ELSE /\ delivered' = Append(delivered, [Head(chError) EXCEPT !.msg = m])
            /\ chError' = Tail(chError)
            /\ crashed' = crashed
    /\ UNCHANGED <<selVars, pipeVars>>
    /\ UNCHANGED <<kind, codecDelay, calls, cpc, lastErr, sessionVars, chOutput, chFlush,
                   syncFlush, ghostVars>>

\* each flush() made its own thread-safe function: the calls of one are in order
DispatchFlush(i) ==
    /\ CanDispatch
    /\ i \in 1..Len(chFlush)
    /\ \A k \in 1..(i - 1) : chFlush[k].cb # chFlush[i].cb
    /\ delivered' = Append(delivered, chFlush[i])
    /\ chFlush' = [k \in 1..(Len(chFlush) - 1) |->
                      IF k < i THEN chFlush[k] ELSE chFlush[k + 1]]
    /\ UNCHANGED <<selVars, pipeVars>>
    /\ UNCHANGED <<kind, codecDelay, calls, cpc, crashed, lastErr, sessionVars, chOutput,
                   chError, syncFlush, ghostVars>>

Next ==
    \/ ConfigureCall
    \/ ConfigureTerminate
    \/ \E f \in Faults : Submit(f)
    \/ Flush
    \/ ResetClear
    \/ ResetFlushBuffers
    \/ CloseBegin
    \/ CloseJoin
    \/ CloseRelease
    \/ DtorBegin
    \/ DtorJoin
    \/ DtorRelease
    \/ \E w \in Workers :
          \/ W_Test(w)
          \/ W_Lock(w)
          \/ W_Wait(w)
          \/ SpuriousWake(w)
          \/ W_Send(w)
          \/ W_Recv(w)
          \/ W_FlushSend(w)
          \/ W_FlushRecv(w)
    \/ DispatchOutput
    \/ \E m \in {"intact", "garbage", "crash"} : DispatchError(m)
    \/ \E i \in 1..MaxJobs : DispatchFlush(i)

Spec == Init /\ [][Next]_vars

\* =================================================================
\* Configure with the selector: the codec string, the preference and the
\* registry are the inputs, the results of the toolkit calls the environment
\* =================================================================

\* the codec strings that are themselves names of FFmpeg implementations outside
\* the lists: mpeg4 (encoder and decoder), vp8 and vp8_cuvid (decoders)
DirectNames(k) == IF k = "enc" THEN {"mpeg4"} ELSE {"mpeg4", "vp8", "vp8_cuvid"}

\* the names a session of class k asks the registry for when given codec string s
RelevantNames(k, s) ==
    LET list == IF k = "enc" THEN getEncoderList(getCodecType(s))
                ELSE getDecoderList(getCodecType(s))
    IN  {list[i].hwEncoder : i \in 1..Len(list)} \cup ({s} \cap DirectNames(k))

CfgInit ==
    /\ kind \in Kinds
    /\ codecDelay = 0
    /\ SessionInit
    /\ codecString \in CodecStrings
    /\ hwPref \in Prefs
    /\ registry \in SUBSET RelevantNames(kind, codecString)
    /\ selInfo = NotFound
    /\ PipeIdle
    /\ ParamIdle

\* HWAccel::selectEncoder(codecString, hwPref, width, height)
SelectEncoderCall ==
    /\ CallerIdle
    /\ kind = "enc"
    /\ selInfo' = selectEncoder(codecString, hwPref)
    /\ UNCHANGED pipeVars
    /\ UNCHANGED <<codecString, hwPref, registry, kind, codecDelay, calls, cpc, crashed,
                   lastErr, sessionVars, channelVars, ghostVars>>

\* HWAccel::selectDecoder(codecString, hwPref, width, height)
SelectDecoderCall ==
    /\ CallerIdle
    /\ kind = "dec"
    /\ selInfo' = selectDecoder(codecString, hwPref)
    /\ UNCHANGED pipeVars
    /\ UNCHANGED <<codecString, hwPref, registry, kind, codecDelay, calls, cpc, crashed,
                   lastErr, sessionVars, channelVars, ghostVars>>

\* what VideoEncoderAsync::Configure meets: the two selections it makes (encInfo
\* at the start, swInfo for the fallback) and the results of
\* av_hwdevice_ctx_create, av_hwframe_ctx_init, the scalability check and the two
\* avcodec_open2 calls
EncEnv(encInfo, swInfo, hwDev, hwFrm, svcOk, openOk, swOpenOk) ==
    [pref |-> hwPref,
     sel |-> IF ~encInfo.found THEN "none"
             ELSE IF encInfo.hwType = "None" THEN "sw" ELSE "hw",
     byName |-> encInfo.found \/ isEncoderAvailable(codecString),
     hwDev |-> hwDev, reqFrames |-> encInfo.hwFrames, hwFrm |-> hwFrm,
     svcOk |-> svcOk, openOk |-> openOk,
     swSel |-> swInfo.found, swOpenOk |-> swOpenOk]

\* what VideoDecoderAsync::Configure meets: the decoder is looked up by name
\* ("libx264" as "h264", "av1" as libdav1d, then libaom-av1), then by codec id
\* (byId: avcodec_find_decoder finds one), then opened
DecEnv(byId, openOk) ==
    LET codecName == IF codecString = "libx264" THEN "h264" ELSE codecString
        named == IF codecName = "av1"
                 THEN isDecoderAvailable("libdav1d") \/ isDecoderAvailable("libaom-av1")
                 ELSE isDecoderAvailable(codecName)
        ided == byId /\ codecName \in {"av1", "h264", "vp8", "vp9", "hevc"}
    IN  [pref |-> hwPref, sel |-> "sw", byName |-> named \/ ided, hwDev |-> FALSE,
         reqFrames |-> FALSE, hwFrm |-> FALSE, svcOk |-> TRUE, openOk |-> openOk,
         swSel |-> FALSE, swOpenOk |-> FALSE]

\* the environments a configure call of the session can meet. swOpenOk says
\* whether avcodec_open2 on the software candidate would succeed after a failed
\* first open; results that no call can ask for are left FALSE
EncEnvs ==
    {e \in {EncEnv(encInfo, swInfo, hwDev, hwFrm, svcOk, openOk, swOpenOk) :
               encInfo \in {selectEncoder(codecString, hwPref)},
               swInfo \in {selectEncoder(codecString, "PreferSoftware")},
               hwDev \in BOOLEAN, hwFrm \in BOOLEAN, svcOk \in BOOLEAN,
               openOk \in BOOLEAN, swOpenOk \in BOOLEAN} :
        /\ (e.sel # "hw" => ~e.hwDev)
        /\ (~(e.hwDev /\ e.reqFrames) => ~e.hwFrm)
        /\ (e.openOk \/ ~e.swSel => ~e.swOpenOk)}
DecEnvs == {DecEnv(byId, openOk) : byId \in BOOLEAN, openOk \in BOOLEAN}

EncConfigureCall ==
    /\ kind = "enc"
    /\ \E cfg \in EncEnvs : Configure(cfg)
    /\ UNCHANGED pipeVars

DecConfigureCall ==
    /\ kind = "dec"
    /\ \E cfg \in DecEnvs : Configure(cfg)
    /\ UNCHANGED pipeVars

CfgNext ==
    \/ SelectEncoderCall
    \/ SelectDecoderCall
    \/ EncConfigureCall
    \/ DecConfigureCall
    \/ ConfigureTerminate

CfgSpec == CfgInit /\ [][CfgNext]_vars

\* =================================================================
\* The encode pipeline: what ProcessEncode and ProcessFlush build for each frame
\* and from each packet
\* =================================================================

SrcFormats == {"YUV420P", "NV12", "RGBA"}
Frames == [format : SrcFormats, width : 1..MaxDim, height : 1..MaxDim]

\* the codecs the pipeline is configured with: software with and without alpha
\* support, hardware with an NV12 and with a VAAPI input format
PipeCodecs == {vp8Encoders[1], h264Encoders[5], h264Encoders[1], h264Encoders[2]}

\* inputHasAlpha
HasAlpha(format) == format \in {"RGBA", "BGRA", "YUVA420P"}

\* codecName_.find("libvpx") != npos, over the names of the candidate tables
IsLibvpx(name) == name \in {"libvpx", "libvpx-vp9"}

\* the pixel format Configure gives the codec context
ConfiguredFormat(m, a) ==
    IF m.type # "None" /\ m.preferredFormat # "NONE" THEN m.preferredFormat
    ELSE IF a /\ IsLibvpx(m.hwEncoder) THEN "YUVA420P"
    ELSE "YUV420P"

\* targetFormat of ProcessEncode for a source frame of the given format
TargetFormat(format) ==
    LET t == IF pixFmt \in {"VAAPI", "NONE"} THEN "YUV420P" ELSE pixFmt
    IN  IF alpha /\ HasAlpha(format) /\ t = "YUV420P" THEN "YUVA420P" ELSE t

\* sws_getContext(srcW, srcH, srcFormat, width_, height_, targetFormat, ...)
SwsContext(src, target) ==
    [srcW |-> src.width, srcH |-> src.height, srcFormat |-> src.format,
     dstW |-> width, dstH |-> height, dstFormat |-> target]

\* what ProcessEncode did with a source frame: op is "error" (no buffer, the
\* job is given up), "copy" (av_frame_copy), "scale" (sws_scale through ctx) or
\* "none" (neither: no context could be made); sent: the frame built goes to
\* avcodec_send_frame; err: an error is queued on tsfnError_
Built(op, src, target, ctx, created) ==
    [op |-> op, src |-> src, target |-> target, ctx |-> ctx, created |-> created,
     sent |-> op # "error", err |-> op = "error"]

\* a configure that succeeds, of a session for width w, height h, alpha a and
\* the codec of mapping m, which has extradata or not once it is open
PipeConfigure(w, h, a, m, xd) ==
    /\ kind = "enc" /\ ~configured
    /\ Configure(IF m.type = "None" THEN SwConfig(TRUE) ELSE HwConfig)
    /\ pixFmt' = ConfiguredFormat(m, a)
    /\ extradata' = xd
    /\ codecName_' = m.hwEncoder
    /\ width' = w /\ height' = h /\ alpha' = a
    /\ UNCHANGED <<swsCtx, frame, chunk, paramVars>>

\* ProcessEncode from the target format to the frame handed to the codec, for a
\* job with source frame src; bufOk: av_frame_get_buffer succeeds; ctxOk:
\* sws_getContext returns a context
BuildFrame(src, bufOk, ctxOk) ==
    /\ configured /\ codecCtx = "open" /\ ~crashed
    /\ LET target == TargetFormat(src.format)
           differs == \/ src.format # target
                      \/ src.width # width
                      \/ src.height # height
           ctx == IF swsCtx # NullCtx THEN swsCtx
                  ELSE IF ctxOk THEN SwsContext(src, target) ELSE NullCtx
       IN  IF ~bufOk
           THEN /\ frame' = Built("error", src, target, NullCtx, FALSE)
                /\ swsCtx' = swsCtx
           ELSE IF differs
           THEN /\ frame' = Built(IF ctx = NullCtx THEN "none" ELSE "scale", src, target,
                                  ctx, swsCtx = NullCtx /\ ctxOk)
                /\ swsCtx' = ctx
           ELSE /\ frame' = Built("copy", src, target, NullCtx, FALSE)
                /\ swsCtx' = swsCtx
    /\ chunk' = NoChunk
    /\ UNCHANGED <<width, height, alpha, pixFmt, extradata, codecName_, paramVars>>
    /\ UNCHANGED <<kind, codecDelay, calls, cpc, crashed, lastErr, sessionVars,
                   channelVars, ghostVars, selVars>>

\* the EncodeResult built from a received packet with or without the key flag:
\* in ProcessEncode (flush = FALSE), after the job's frame went to the codec,
\* and in ProcessFlush (flush = TRUE), a job that has no frame
BuildChunk(isKey, flush) ==
    /\ configured /\ codecCtx = "open" /\ ~crashed
    /\ IF flush THEN frame' = NoFrame ELSE frame.sent /\ frame' = frame
    /\ chunk' = [built |-> TRUE, isKeyframe |-> isKey,
                 hasExtradata |-> IF flush THEN FALSE ELSE isKey /\ extradata,
                 flush |-> flush]
    /\ UNCHANGED <<width, height, alpha, pixFmt, extradata, codecName_, swsCtx, paramVars>>
    /\ UNCHANGED <<kind, codecDelay, calls, cpc, crashed, lastErr, sessionVars,
                   channelVars, ghostVars, selVars>>

PipeInit ==
    /\ kind = "enc"
    /\ codecDelay = 0
    /\ SessionInit
    /\ codecString = "libx264"
    /\ hwPref = "NoPreference"
    /\ registry = {}
    /\ selInfo = NotFound
    /\ PipeIdle
    /\ ParamIdle

PipeNext ==
    \/ \E w \in 1..MaxDim, h \in 1..MaxDim, a \in BOOLEAN, m \in PipeCodecs,
          xd \in BOOLEAN : PipeConfigure(w, h, a, m, xd)
    \/ \E src \in Frames, bufOk \in BOOLEAN, ctxOk \in BOOLEAN :
          BuildFrame(src, bufOk, ctxOk)
    \/ \E isKey \in BOOLEAN, flush \in BOOLEAN : BuildChunk(isKey, flush)

PipeSpec == PipeInit /\ [][PipeNext]_vars

\* =================================================================
\* The parameters Configure opens the encoder with, on the direct path and on
\* the path through the software fallback
\* =================================================================

\* the arguments of a configure call
Configs ==
    [width : 1..MaxDim, height : 1..MaxDim,
     bitrateMode : {"constant", "quantizer", "variable"}, bitrate : 1..MaxBitrate,
     framerate : 1..MaxFps, alpha : BOOLEAN, latencyMode : {"quality", "realtime"}]

\* codecName_.find("av1") != npos, over the names of the candidate tables
IsAv1(name) == name \in {"av1_nvenc", "av1_vaapi", "av1_qsv", "libsvtav1", "libaom-av1"}

\* av_opt_set on options already set: the later value of an option replaces
\* the earlier one
Override(opts, new) == {p \in opts : \A q \in new : q[1] # p[1]} \cup new

\* "Configure rate control": the rate fields of the context and the private
\* options, by bitrateMode_ (bitrate stands for the value of bitrate_)
RateControl(name, c) ==
    IF c.bitrateMode = "constant"
    THEN [bit_rate |-> c.bitrate, rc_min_rate |-> c.bitrate, rc_max_rate |-> c.bitrate,
          rc_buffer_size |-> c.bitrate,
          opts |-> IF name = "libx264" THEN {<<"nal-hrd", "cbr">>}
                   ELSE IF IsLibvpx(name)
                   THEN {<<"minrate", "bitrate">>, <<"maxrate", "bitrate">>}
                   ELSE {}]
    ELSE IF c.bitrateMode = "quantizer"
    THEN [bit_rate |-> 0, rc_min_rate |-> 0, rc_max_rate |-> 0, rc_buffer_size |-> 0,
          opts |-> IF name \in {"libx264", "libx265"} THEN {<<"crf", "23">>}
                   ELSE IF IsLibvpx(name)
                   THEN {<<"crf", "30">>, <<"qmin", "0">>, <<"qmax", "63">>}
                   ELSE IF IsAv1(name) THEN {<<"crf", "30">>}
                   ELSE {}]
    ELSE [bit_rate |-> c.bitrate, rc_min_rate |-> 0, rc_max_rate |-> 0,
          rc_buffer_size |-> 0, opts |-> {}]

\* configureEncoderOptions(encoderName, latencyMode), called on a context whose
\* bit_rate is bit_rate: the private options it sets
EncoderOptions(encoderName, latencyMode, bit_rate) ==
    LET isRealtime == latencyMode = "realtime"
    IN  IF encoderName = "libx264"
        THEN IF isRealtime
             THEN {<<"preset", "ultrafast">>, <<"tune", "zerolatency">>,
                   <<"rc-lookahead", "0">>, <<"sync-lookahead", "0">>,
                   <<"intra-refresh", "1">>}
             ELSE {<<"preset", "medium">>}
        ELSE IF encoderName \in {"h264_nvenc", "hevc_nvenc"}
        THEN (IF isRealtime
              THEN {<<"preset", "p1">>, <<"tune", "ll">>, <<"zerolatency", "1">>,
                    <<"rc-lookahead", "0">>}
              ELSE {<<"preset", "p4">>}) \cup {<<"rc", "cbr">>}
        ELSE IF encoderName \in {"h264_qsv", "hevc_qsv"}
        THEN IF isRealtime
             THEN {<<"preset", "veryfast">>, <<"low_delay_brc", "1">>,
                   <<"look_ahead", "0">>}
             ELSE {}
        ELSE IF encoderName \in {"libvpx", "libvpx-vp9"}
        THEN (IF bit_rate > 0 THEN {<<"crf", "10">>, <<"b", "bitrate">>} ELSE {})
             \cup (IF isRealtime
                   THEN {<<"cpu-used", "8">>, <<"lag-in-frames", "0">>,
                         <<"deadline", "realtime">>}
                   ELSE {<<"cpu-used", "4">>})
        ELSE IF encoderName = "libx265"
        THEN IF isRealtime
             THEN {<<"preset", "ultrafast">>, <<"tune", "zerolatency">>}
             ELSE {<<"preset", "medium">>}
        ELSE IF encoderName \in {"libaom-av1", "libsvtav1"}
        THEN IF isRealtime
             THEN {<<"cpu-used", "10">>, <<"lag-in-frames", "0">>,
                   <<"usage", "realtime">>}
             ELSE {<<"cpu-used", "6">>}
        ELSE {}

\* the parameters of the context Configure opens first, for the codec that
\* selectEncoder (or the lookup by name) gave it
DirectParams(info, c) ==
    LET rc == RateControl(info.name, c)
        tuned == Override(rc.opts, EncoderOptions(info.name, c.latencyMode, rc.bit_rate))
    IN  [codec |-> info.name,
         bit_rate |-> rc.bit_rate, rc_min_rate |-> rc.rc_min_rate,
         rc_max_rate |-> rc.rc_max_rate, rc_buffer_size |-> rc.rc_buffer_size,
         gop_size |-> c.framerate, framerate |-> c.framerate, max_b_frames |-> 0,
         pix_fmt |-> ConfiguredFormat(Mapping(info.name, info.hwType, info.format),
                                      c.alpha),
         lowDelay |-> c.latencyMode = "realtime",
         opts |-> IF c.alpha /\ IsLibvpx(info.name)
                  THEN Override(tuned, {<<"auto-alt-ref", "0">>})
                  ELSE tuned]

\* the parameters of the context Configure opens for the software codec after
\* the first open failed
FallbackParams(swInfo, c) ==
    [codec |-> swInfo.name,
     bit_rate |-> c.bitrate, rc_min_rate |-> 0, rc_max_rate |-> 0, rc_buffer_size |-> 0,
     gop_size |-> c.framerate, framerate |-> c.framerate, max_b_frames |-> 0,
     pix_fmt |-> "YUV420P",
     lowDelay |-> c.latencyMode = "realtime",
     opts |-> EncoderOptions(swInfo.name, c.latencyMode, c.bitrate)]

\* the codec Configure goes on with: the selection, or the codec found under
\* the codec string itself
Selected(encInfo) ==
    IF encInfo.found THEN encInfo
    ELSE Info(Mapping(codecString, "None", "YUV420P"), "None", FALSE)

\* configure(config) of an encoder session with arguments config, in environment
\* cfg: the session part is Configure(cfg); opened records the path taken and
\* the parameters of the context that was opened
ParamConfigure(cfg) ==
    LET encInfo == Selected(selectEncoder(codecString, hwPref))
        swInfo == selectEncoder(codecString, "PreferSoftware")
        early == cfg.sel = "none" /\ ~cfg.byName
        direct == ~early /\ cfg.svcOk /\ cfg.openOk
        fallback == /\ cfg.sel = "hw" /\ cfg.svcOk /\ ~cfg.openOk
                    /\ cfg.pref # "PreferHardware" /\ cfg.swSel /\ cfg.swOpenOk
    IN  /\ kind = "enc" /\ ~configured
        /\ Configure(cfg)
        /\ opened' = IF direct THEN [path |-> "direct", params |-> DirectParams(encInfo, config)]
                     ELSE IF fallback
                     THEN [path |-> "fallback", params |-> FallbackParams(swInfo, config)]
                     ELSE NotOpened
        /\ width' = config.width /\ height' = config.height
        /\ alpha' = IF early THEN alpha ELSE config.alpha
        /\ codecName_' = IF early THEN codecName_ ELSE encInfo.name
        /\ pixFmt' = opened'.params.pix_fmt
        /\ extradata' \in IF direct \/ fallback THEN BOOLEAN ELSE {FALSE}
        /\ UNCHANGED <<swsCtx, frame, chunk, config>>

\* the sessions: a family with hardware and software candidates, all of them
\* registered, configured with or without a preference for software
ParamInit ==
    /\ kind = "enc"
    /\ codecDelay = 0
    /\ SessionInit
    /\ codecString \in {"avc1.42E01E", "vp09.00.10.08"}
    /\ hwPref \in {"NoPreference", "PreferSoftware"}
    /\ registry = {getEncoderList(getCodecType(codecString))[i].hwEncoder :
                      i \in 1..Len(getEncoderList(getCodecType(codecString)))}
    /\ selInfo = NotFound
    /\ PipeIdle
    /\ config \in Configs
    /\ opened = NotOpened

ParamNext == \E cfg \in EncEnvs : ParamConfigure(cfg)

ParamSpec == ParamInit /\ [][ParamNext]_vars

\* =================================================================
\* The selectors over every standard codec tag and every implementation name
\* of the candidate tables
\* =================================================================

Families == {"h264", "hevc", "vp8", "vp9", "av1"}

\* standard codec strings, by the family their tag stands for
StandardTags ==
    [h264 |-> {"avc1.42E01E", "avc3.640028"},
     hevc |-> {"hvc1.1.6.L93.B0", "hev1.1.6.L93.B0"},
     vp8 |-> {"vp8"},
     vp9 |-> {"vp09.00.10.08", "vp9"},
     av1 |-> {"av01.0.04M.08"}]

\* the names in a candidate table
Names(list) == {list[i].hwEncoder : i \in 1..Len(list)}

\* the names the tables have only in the builds for macOS and Windows
OtherBuildNames ==
    [h264 |-> {"h264_videotoolbox", "h264_mf", "h264_amf"},
     hevc |-> {"hevc_videotoolbox", "hevc_mf", "hevc_amf"},
     vp8 |-> {},
     vp9 |-> {},
     av1 |-> {"av1_amf"}]

\* every implementation name in the encoder or decoder table of a family
TableNames(family) ==
    Names(getEncoderList(family)) \cup Names(getDecoderList(family))
        \cup OtherBuildNames[family]

NormStrings == UNION {StandardTags[f] \cup TableNames(f) : f \in Families}

\* the table the selector of this session searches for the codec string
SearchedTable ==
    IF kind = "enc" THEN getEncoderList(getCodecType(codecString))
    ELSE getDecoderList(getCodecType(codecString))

\* the table of this build that holds the codec string as a name, <<>> if none
HoldingTable ==
    LET lists == IF kind = "enc"
                 THEN {h264Encoders, hevcEncoders, vp8Encoders, vp9Encoders, av1Encoders}
                 ELSE {h264Decoders, hevcDecoders, vp9Decoders, av1Decoders}
        holding == {l \in lists : codecString \in Names(l)}
    IN  IF holding = {} THEN <<>> ELSE CHOOSE l \in holding : TRUE

\* a session about to select by a tag or by a name; FFmpeg knows the name, if it
\* is one of this build's table, or knows nothing
NormInit ==
    /\ kind \in Kinds
    /\ codecDelay = 0
    /\ SessionInit
    /\ codecString \in NormStrings
    /\ hwPref \in Prefs
    /\ registry \in {{}, {codecString} \cap Names(HoldingTable)}
    /\ selInfo = NotFound
    /\ PipeIdle
    /\ ParamIdle

NormNext ==
    \/ SelectEncoderCall
    \/ SelectDecoderCall

NormSpec == NormInit /\ [][NormNext]_vars

\* =================================================================
\* The session under a fair scheduler, without reset, close and destruction
\* =================================================================

\* one step of worker w's thread
WorkerThread(w) ==
    \/ W_Test(w) \/ W_Lock(w) \/ W_Wait(w)
    \/ W_Send(w) \/ W_Recv(w) \/ W_FlushSend(w) \/ W_FlushRecv(w)

FairNext ==
    \/ ConfigureCall
    \/ ConfigureTerminate
    \/ \E f \in Faults : Submit(f)
    \/ Flush
    \/ \E w \in Workers : WorkerThread(w) \/ SpuriousWake(w)
    \/ DispatchOutput
    \/ \E m \in {"intact", "garbage", "crash"} : DispatchError(m)
    \/ \E i \in 1..MaxJobs : DispatchFlush(i)

\* a thread that can run is eventually run by the operating system
FairSpec ==
    /\ Init
    /\ [][FairNext]_vars
    /\ \A w \in Workers : WF_vars(WorkerThread(w))

\* =================================================================
\* Properties
\* =================================================================
Pending == chOutput \o chError \o chFlush
Indices(q) == 1..Len(q)

\* one successful configure and no reset, close or destruction since
Undisturbed == calls = 1 /\ lifecycle = "Configured" /\ cpc = "idle"

\* results of job j exist (queued for, or run by, the caller)
HasResult(j) ==
    \/ \E i \in Indices(Pending) : Pending[i].job = j
    \/ \E i \in Indices(delivered) : delivered[i].job = j

\* the worker is done with job j
Finished(j) == j \in Range(processed) /\ j \notin InFlight

\* C1: on a session that was configured once and neither reset nor closed, the
\* worker dequeues the jobs in submission order and the caller sees the results
\* (outputs, errors, flush completions) ordered by the job they belong to.
C1_SubmissionOrder ==
    Undisturbed =>
        /\ \A i \in Indices(processed) : processed[i] = i
        /\ \A i, k \in Indices(delivered) :
              i < k => delivered[i].job <= delivered[k].job

\* C2: when the caller sees the completion of a flush job, every output made
\* while the worker processed that flush or a job before it has been seen: none
\* is still queued, none is seen later.
C2_FlushBarrier ==
    \A i \in Indices(delivered) :
        delivered[i].kind = "flush" =>
            /\ \A k \in Indices(chOutput) : chOutput[k].during > delivered[i].job
            /\ \A k \in Indices(delivered) :
                  (k > i /\ delivered[k].kind = "out")
                      => delivered[k].during > delivered[i].job

\* C3: a job that reset() removed from the queue is never dequeued and has no
\* result; a job the worker held when reset() ran, which the codec accepted and
\* which a codec without latency answers at once, has its output when the worker
\* is done with it.
C3_ResetSemantics ==
    /\ \A j \in discarded : j \notin Range(processed) /\ ~HasResult(j)
    /\ \A j \in atReset :
          (/\ calls = 2 /\ lifecycle = "Configured"
           /\ Finished(j) /\ j \in sendOk
           /\ submitted[j].fault = "none" /\ codecDelay = 0)
              => HasResult(j)

\* C4: a submit on a session that is not Configured throws the not-configured
\* error, pushes no job and changes nothing of the session.
C4_SubmitNotConfigured ==
    [][((\E f \in Faults : Submit(f)) /\ lifecycle # "Configured")
          => (/\ lastErr' = "NotConfigured"
              /\ UNCHANGED <<sessionVars, channelVars, ghostVars, crashed>>)]_vars

C4_Witness ==
    /\ lastErr = "NotConfigured"
    /\ lifecycle = "Closed"
    /\ submitted # <<>>

\* the state a close() leaves behind
AfterClose ==
    /\ lifecycle = "Closed"
    /\ ~configured /\ ~running
    /\ workerThread = 0 /\ LiveWorkers = {}
    /\ jobQueue = <<>>
    /\ codecCtx = "null" /\ ~hwDeviceCtx /\ ~hwFramesCtx

\* C5: every close() ends in the closed state, and a close() called in that state
\* throws nothing, joins nothing and leaves the session as it was.
C5_CloseIdempotent ==
    [][/\ CloseRelease => AfterClose'
       /\ (AfterClose /\ (CloseBegin \/ CloseJoin \/ CloseRelease))
             => (/\ lastErr' = "" /\ crashed' = crashed
                 /\ UNCHANGED <<sessionVars, channelVars, joins, lifecycle>>)]_vars

C5_Witness ==
    /\ AfterClose
    /\ cpc = "close_free"
    /\ joins = 1

\* C6: when close() or the destructor is about to free the codec handle and the
\* hardware contexts, no worker thread is alive, and none is alive afterwards
\* for as long as the session stays closed.
C6_NoUseAfterFree ==
    (cpc \in {"close_free", "dtor_free"} \/ lifecycle \in {"Closed", "Destroyed"})
        => LiveWorkers = {}

C6_Witness ==
    /\ cpc = "close_free"
    /\ joins = 1
    /\ codecCtx = "open" /\ hwDeviceCtx /\ hwFramesCtx
    /\ processed # <<>>

\* a step of worker w that does not rest on a spurious wake-up
WorkerStep(w) ==
    \/ W_Test(w) \/ W_Lock(w) \/ W_Wait(w)
    \/ W_Send(w) \/ W_Recv(w) \/ W_FlushSend(w) \/ W_FlushRecv(w)

\* C7: close() terminates: while it waits in join(), either the join can return or
\* the worker it waits for can take a step.
C7_CloseTerminates ==
    (cpc = "close_join" /\ ~crashed)
        => ENABLED (CloseJoin \/ \E w \in Workers : WorkerStep(w))

\* C8: at most one job is being processed against the codec.
C8_SingleWorker == Cardinality({w \in Workers : wpc[w] \in ProcPcs}) <= 1

\* how often output number n is queued for, or was handed to, the output callback
Copies(n) ==
    Cardinality({i \in Indices(chOutput) : chOutput[i].seq = n})
  + Cardinality({i \in Indices(delivered) :
                    delivered[i].kind = "out" /\ delivered[i].seq = n})

\* C9: every frame/chunk the codec has emitted is queued for the output callback
\* or was handed to it, exactly once, and nothing else is.
C9_ExactlyOnce ==
    /\ \A n \in 1..nProduced : Copies(n) = 1
    /\ \A i \in Indices(chOutput) : chOutput[i].seq \in 1..nProduced
    /\ \A i \in Indices(delivered) :
          delivered[i].kind = "out" => delivered[i].seq \in 1..nProduced

C9_Witness ==
    /\ lifecycle = "Closed"
    /\ nProduced = 2
    /\ chOutput # <<>>
    /\ \E i \in Indices(delivered) : delivered[i].kind = "out"

\* C10: the error callback is handed the message of the failure it is called for,
\* and a failed job leaves the session Configured with its worker running.
C10_ErrorIsolation ==
    /\ \A i \in Indices(delivered) :
          delivered[i].kind = "err" => delivered[i].msg = "intact"
    /\ (Undisturbed /\ ~crashed) => (configured /\ running /\ LiveWorkers # {})

\* C11: every step of the worker in which a codec call of a job fails - the send
\* is rejected, or the pull of output returns an error - queues one call of the
\* error callback, in the encoder and in the decoder.
C11_FailuresReported ==
    [][\A w \in Workers :
          (\/ (W_Send(w) /\ codecCtx # "null" /\ SendFails(wjob[w]))
           \/ (W_Recv(w) /\ codecCtx = "open" /\ ReceiveFails))
              => Len(chError') = Len(chError) + 1]_vars

\* C12: when the hardware candidate fails to open and the preference is not
\* PreferHardware, configure releases the hardware device and the frame pool,
\* and it succeeds - with a software session and no error - exactly when a
\* software candidate is registered and opens; otherwise it raises an error.
C12_SoftwareFallback ==
    [][\A cfg \in EncEnvs :
          (/\ kind = "enc" /\ ~configured /\ Configure(cfg)
           /\ cfg.sel = "hw" /\ cfg.svcOk /\ ~cfg.openOk
           /\ cfg.pref # "PreferHardware")
              => /\ ~hwDeviceCtx' /\ ~hwFramesCtx'
                 /\ configured' <=> (cfg.swSel /\ cfg.swOpenOk)
                 /\ configured' =>
                       hwType' = "None" /\ codecCtx' = "open" /\ lastErr' = ""
                 /\ ~configured' => codecCtx' = "null" /\ lastErr' # ""]_vars

\* a session that runs on the software codec although the selector's first
\* answer was a hardware one
C12_Witness ==
    /\ kind = "enc" /\ calls = 1 /\ configured /\ lastErr = ""
    /\ hwType = "None" /\ codecCtx = "open" /\ ~hwDeviceCtx /\ ~hwFramesCtx
    /\ hwPref = "NoPreference"
    /\ selectEncoder(codecString, hwPref).hwType # "None"

\* C13: a hardware candidate that fails to open under PreferHardware, and a
\* software candidate that fails to open, make configure raise an error without
\* a second attempt; the session stays Unconfigured and no worker is started.
C13_OpenFailureReported ==
    [][\A cfg \in EncEnvs \cup DecEnvs :
          (/\ ~configured /\ lifecycle = "Unconfigured" /\ Configure(cfg)
           /\ (kind = "enc" => cfg \in EncEnvs) /\ (kind = "dec" => cfg \in DecEnvs)
           /\ (cfg.sel # "none" \/ cfg.byName) /\ cfg.svcOk /\ ~cfg.openOk
           /\ (cfg.sel = "hw" => cfg.pref = "PreferHardware"))
              => /\ lastErr' # ""
                 /\ ~configured' /\ lifecycle' = "Unconfigured"
                 /\ codecCtx' = "null" /\ ~running'
                 /\ LiveWorkers' = {} /\ workerThread' = 0]_vars

\* a PreferHardware session whose hardware candidate did not open although the
\* software candidate is registered and would open
C13_Witness ==
    /\ kind = "enc" /\ calls = 1 /\ ~configured /\ lastErr # ""
    /\ hwPref = "PreferHardware" /\ hwType # "None" /\ codecCtx = "null"
    /\ selectEncoder(codecString, "PreferSoftware").found

\* C14: whenever configure has returned, on every exit path, the session either
\* is Configured with an open codec handle, or is not Configured and holds no
\* codec handle, no hardware device context and no hardware frame context; a
\* configure that failed has started no worker.
C14_AllOrNothing ==
    (cpc = "idle" /\ calls <= 1)
        => /\ configured => codecCtx = "open" /\ lifecycle = "Configured"
           /\ ~configured =>
                 /\ codecCtx = "null" /\ ~hwDeviceCtx /\ ~hwFramesCtx
                 /\ LiveWorkers = {} /\ workerThread = 0

\* C15: configure is accepted only in the Unconfigured state: called on a session
\* that is already Configured it does not replace the codec handle, does not
\* start a second worker and does not change the state of the session.
C15_ConfigureOnlyUnconfigured ==
    [][(ConfigureCall /\ lifecycle = "Configured" /\ configured)
          => /\ codecCtx' = codecCtx /\ codecBuf' = codecBuf
             /\ LiveWorkers' = LiveWorkers /\ workerThread' = workerThread
             /\ lifecycle' = lifecycle /\ configured' /\ running' = running]_vars

\* C16: Closed is terminal: once close() has returned, no call brings the session
\* back to Configured or starts a worker.
C16_ClosedTerminal ==
    [][lifecycle = "Closed"
          => /\ lifecycle' \in {"Closed", "Destroyed"}
             /\ ~configured' /\ LiveWorkers' = {}]_vars

\* the entries of a priority list whose implementation is registered
Registered(list) == {i \in 1..Len(list) : list[i].hwEncoder \in registry}

\* the names of hardware implementations: every entry of a priority list with
\* an acceleration type, and the NVDEC decoder of VP8, which has no list
HardwareNames ==
    UNION {{list[i].hwEncoder : i \in {k \in 1..Len(list) : list[k].type # "None"}} :
              list \in {h264Encoders, hevcEncoders, vp8Encoders, vp9Encoders, av1Encoders,
                        h264Decoders, hevcDecoders, vp9Decoders, av1Decoders}}
        \cup {"vp8_cuvid"}

\* C17: under PreferSoftware neither selector returns a hardware candidate, for
\* any codec string and any registry: a result that is found is a registered
\* software implementation, with acceleration type None and no hardware frame
\* pool.
C17_PreferSoftwareNeverHardware ==
    [][(SelectEncoderCall \/ SelectDecoderCall) /\ hwPref = "PreferSoftware"
          => (selInfo'.found =>
                /\ selInfo'.hwType = "None" /\ ~selInfo'.hwFrames
                /\ selInfo'.name \in registry
                /\ selInfo'.name \notin HardwareNames)]_vars

\* the priority list the selector of the session's class scans
FamilyList ==
    IF kind = "enc" THEN getEncoderList(getCodecType(codecString))
    ELSE getDecoderList(getCodecType(codecString))

Admissible ==
    {i \in Registered(FamilyList) :
        hwPref = "PreferSoftware" => FamilyList[i].type = "None"}

\* C19: a selector returns not-found exactly when no registered entry of the
\* family is admissible under the preference (also when the codec string has no
\* known family), and a configure whose selector call returns not-found raises
\* an error and leaves the session Unconfigured.
C19_NotFoundIsError ==
    [][/\ (SelectEncoderCall \/ SelectDecoderCall)
            => (~selInfo'.found <=> Admissible = {})
       /\ \A cfg \in EncEnvs :
             (/\ kind = "enc" /\ lifecycle = "Unconfigured"
              /\ Configure(cfg) /\ cfg.sel = "none")
                 => lastErr' # "" /\ ~configured' /\ lifecycle' = "Unconfigured"]_vars

\* the completion callbacks invoked so far
FlushDone == {i \in 1..Len(delivered) : delivered[i].kind = "flush"}

\* C20: every flush accepted in the Configured state has its own completion
\* callback invoked exactly once, also when a second flush is issued before the
\* first was processed: a completion that is invoked is the callback of the
\* flush job it completes, no callback is invoked twice, and once every flush
\* job is processed and every queued completion dispatched, none was skipped.
C20_OwnCompletionOnce ==
    /\ \A i \in FlushDone : delivered[i].cb = delivered[i].job
    /\ \A i, k \in FlushDone : delivered[i].cb = delivered[k].cb => i = k
    /\ (/\ Undisturbed /\ ~crashed /\ discarded = {} /\ atReset = {}
        /\ chFlush = <<>> /\ jobQueue = <<>> /\ InFlight = {})
          => \A id \in 1..Len(submitted) :
                submitted[id].isFlush =>
                   \E i \in FlushDone : delivered[i].cb = id

AtCodecCall == {w \in Workers : wpc[w] \in {"send", "recv", "fsend", "frecv"}}

\* C22: between the return of a successful configure and the join of the worker
\* in close, only the worker calls into the codec: the caller thread makes no
\* call on the codec handle (reset's avcodec_flush_buffers in particular) while
\* a worker is at a codec call on the same handle.
C22_CodecOnlyOnWorker ==
    [][(lifecycle = "Configured" /\ codecCtx = "open" /\ AtCodecCall # {})
          => ~ResetFlushBuffers]_vars

\* the session fields, other than the codec handle, that the next step of worker
\* w accesses without holding queueMutex_: the loop test reads running_,
\* ProcessFlush reads tsfnFlush_ and writes flushPending_
WorkerUnlocked(w) ==
    IF crashed THEN {}
    ELSE IF wpc[w] = "test" THEN {[field |-> "running_", write |-> FALSE]}
    ELSE IF wpc[w] = "frecv"
    THEN {[field |-> "tsfnFlush_", write |-> FALSE],
          [field |-> "flushPending_", write |-> TRUE]}
    ELSE {}

\* the fields the calls the caller can make now access without holding
\* queueMutex_: Flush writes tsfnFlush_ and flushPending_ before it locks, Close
\* and the destructor write running_ before they notify
CallerUnlocked ==
    (IF configured /\ ENABLED Flush
     THEN {[field |-> "tsfnFlush_", write |-> TRUE],
           [field |-> "flushPending_", write |-> TRUE]}
     ELSE {})
    \cup (IF ENABLED CloseBegin \/ ENABLED DtorBegin
          THEN {[field |-> "running_", write |-> TRUE]}
          ELSE {})

\* C23: apart from the job queue, no mutable field of the session is accessed by
\* the caller thread and by the worker thread without the queue mutex: there is
\* no state in which a worker's next step and a call the caller can make touch
\* the same field outside the mutex, one of them writing (the running flag, the
\* flush-pending flag and the flush callback handle included).
C23_NoUnlockedSharing ==
    \A w \in Workers : \A a \in WorkerUnlocked(w) : \A b \in CallerUnlocked :
        a.field = b.field => ~(a.write \/ b.write)

\* C24: once close() or the destructor has cleared the running flag, no worker
\* takes a further job from the queue, in every interleaving - also when the
\* flag is cleared after the worker has passed its loop test while jobs are
\* queued.
C24_StopDrainsNothing ==
    [][(~running /\ cpc \in {"close_join", "dtor_join"})
          => /\ Len(processed') = Len(processed)
             /\ \A w \in Workers : wjob'[w] # 0 => wjob'[w] = wjob[w]]_vars

\* C25: no wake-up of a submit or flush is lost: while jobs are queued the live
\* workers are never all asleep on the condition variable, and under a fair
\* scheduler every job that is pushed is eventually dequeued and processed
\* (unless the process has terminated meanwhile).
C25_NoLostWakeup ==
    /\ []((jobQueue # <<>> /\ LiveWorkers # {} /\ ~crashed)
             => \E w \in LiveWorkers : wpc[w] # "waiting")
    /\ \A id \in 1..MaxJobs :
          (id \in Range(jobQueue)) ~> (Finished(id) \/ crashed)

\* a job that was pushed while the worker was asleep has been processed
C25_Witness ==
    /\ ~crashed /\ calls = 1 /\ Len(submitted) = 2
    /\ Finished(1) /\ Finished(2) /\ jobQueue = <<>>
    /\ \E w \in Workers : wpc[w] = "waiting"

\* every call queued so far, dispatched or not
AllCalls == Range(Pending) \cup Range(delivered)

\* C26: the outputs and errors of an encode/decode job are handed over with a
\* blocking call and are queued before the worker takes the next job; the
\* outputs of a flush job and the flush completion are handed over with a
\* non-blocking call; while it processes a flush the worker never waits for
\* the caller, whatever the caller is doing.
C26_DeliveryDiscipline ==
    /\ \A c \in AllCalls :
          /\ c.during \in 1..Len(submitted)
          /\ ~submitted[c.during].isFlush =>
                c.kind \in {"out", "err"} /\ c.how = "BlockingCall"
          /\ submitted[c.during].isFlush =>
                c.kind \in {"out", "flush"} /\ c.how = "NonBlockingCall"
    /\ Cardinality({c \in AllCalls : c.kind = "out"}) = nProduced
    /\ \A w \in Workers :
          (wpc[w] \in {"fsend", "frecv"} /\ ~crashed) => ENABLED WorkerThread(w)

\* a flush has handed over an output and its completion while the caller was
\* inside another call
C26_Witness ==
    /\ \E c \in AllCalls : c.kind = "out" /\ c.how = "NonBlockingCall"
    /\ \E c \in Range(chFlush) : c.how = "NonBlockingCall"
    /\ cpc # "idle"

\* C27: errors reach the caller through the error callback only and outputs
\* through the output callback only, and the order is kept across the two: the
\* error of a job is seen before every output and error of a job submitted
\* later, and after every output of a job submitted earlier.
C27_CrossChannelOrder ==
    /\ \A c \in Range(chOutput) : c.kind = "out"
    /\ \A c \in Range(chError) : c.kind = "err"
    /\ Undisturbed =>
          \A i, k \in Indices(delivered) :
             (delivered[i].kind = "err" /\ delivered[k].kind \in {"out", "err"})
                => /\ delivered[i].job < delivered[k].job => i < k
                   /\ (delivered[k].kind = "out" /\ delivered[k].job < delivered[i].job)
                         => k < i

\* C28: every chunk with the keyframe flag carries the codec's extradata when
\* the codec has some - chunks built while an encode job is processed and
\* chunks built while a flush job is processed alike; a chunk without the
\* keyframe flag carries none.
C28_KeyframeExtradata ==
    chunk.built =>
        /\ (chunk.isKeyframe /\ extradata) => chunk.hasExtradata
        /\ ~chunk.isKeyframe => ~chunk.hasExtradata

\* C29: the cached conversion context matches the frame being converted: a
\* frame that is scaled is scaled through a context made for its own source
\* format and size and for the target format and the configured size, whatever
\* frames came before it in the session.
C29_ContextMatches ==
    frame.op = "scale" => frame.ctx = SwsContext(frame.src, frame.target)

\* C30: a frame handed to the codec whose format, width and height equal the
\* target format and the configured dimensions was copied directly, with no
\* conversion context created or used; a conversion pass was made for a frame
\* handed to the codec if and only if one of the three differs.
C30_ShortCircuit ==
    frame.sent =>
        LET match == /\ frame.src.format = frame.target
                     /\ frame.src.width = width
                     /\ frame.src.height = height
        IN  /\ match => frame.op = "copy" /\ frame.ctx = NullCtx /\ ~frame.created
            /\ frame.op = "scale" <=> ~match

\* C31: a failure of the conversion stage of an encode job - no buffer for the
\* frame, or no conversion context for a frame that needs conversion - is
\* reported through the error callback, and the frame of that job is not
\* handed to the codec.
C31_ConversionFailureReported ==
    frame.op \in {"error", "none"} => frame.err /\ ~frame.sent

\* C32: the target format of an encode job is alpha-capable only when alpha
\* retention was requested, the input frame has an alpha channel and the open
\* codec is of a family that supports alpha; for a codec of a family without
\* alpha support the target format is the format the codec was opened with
\* (for a hardware surface format, the software layout that stands for it).
C32_AlphaTarget ==
    frame.op # "idle" =>
        /\ frame.target = "YUVA420P" =>
               alpha /\ HasAlpha(frame.src.format) /\ IsLibvpx(codecName_)
        /\ ~IsLibvpx(codecName_) =>
               frame.target = IF pixFmt \in {"VAAPI", "NONE"} THEN "YUV420P" ELSE pixFmt

\* C33: the session stays usable after a flush: in a session configured once
\* and neither reset nor closed, a job submitted after a flush job, that a
\* worker has taken past the send and whose input the codec has no reason of
\* its own to reject, was accepted by the codec.
C33_UsableAfterFlush ==
    (Undisturbed /\ ~crashed /\ calls = 1 /\ codecCtx = "open") =>
        \A j \in 1..Len(submitted) :
            (/\ ~submitted[j].isFlush /\ submitted[j].fault = "none"
             /\ \E f \in 1..(j - 1) : submitted[f].isFlush
             /\ \E i \in 1..Len(processed) : processed[i] = j
             /\ \A w \in Workers : wjob[w] = j => wpc[w] # "send")
                => j \in sendOk

\* C34: a session that reached its software codec through the fallback after
\* the hardware codec failed to open has that codec opened with the parameters
\* (codec, rate control by bitrate and bitrate mode, framerate and GOP, pixel
\* format, latency options) with which a session configured directly with
\* PreferSoftware from the same arguments opens it.
C34_FallbackEquivalence ==
    opened.path = "fallback" =>
        opened.params = DirectParams(selectEncoder(codecString, "PreferSoftware"), config)

\* C35: every standard codec tag maps to its family, and every implementation
\* name of a family's encoder or decoder table maps back to that family, so
\* that a selection by a direct implementation name searches the table that
\* holds the name - and returns that implementation when FFmpeg knows it and
\* the preference admits it.
C35_Normalisation ==
    /\ \A f \in Families :
          codecString \in StandardTags[f] \cup TableNames(f)
              => getCodecType(codecString) = f
    /\ HoldingTable # <<>> => SearchedTable = HoldingTable
    /\ (selInfo.found /\ HoldingTable # <<>>) => selInfo.name = codecString

C35_Witness ==
    /\ kind = "enc" /\ codecString = "libvpx-vp9" /\ hwPref = "NoPreference"
    /\ selInfo.found /\ selInfo.name = "libvpx-vp9"

\* C36: close() discards queued work: from the call of close() to its return no
\* job is taken from the queue (the caller being inside close(), every job in
\* the queue was queued when close() was called), close() returns with the
\* queue empty, and a job that close() removed from the queue is never
\* processed.
C36_CloseDiscardsQueued ==
    [][/\ cpc \in {"close_join", "close_free"} => processed' = processed
       /\ (cpc = "close_free" /\ cpc' = "idle") => jobQueue' = <<>>
       /\ closeDropped' \cap Range(processed') = {}]_vars

\* C37: whenever the session accepts submits - its configured flag is set - its
\* codec handle is non-null and refers to a codec that was opened, over every
\* sequence of configure (succeeding or failing), submit, flush, reset and
\* close calls.
C37_ConfiguredHasOpenCodec ==
    (configured /\ ~crashed) => codecCtx = "open"

\* C38: when no hardware entry of the family's list is registered, what a
\* selector returns under PreferSoftware is what it returns under NoPreference -
\* the same software implementation - for every family and every content of
\* the registry, in the encoder and in the decoder selector.
C38_SoftwareSelectionAgrees ==
    (/\ hwPref = "PreferSoftware" /\ selInfo.found
     /\ \A i \in Registered(FamilyList) : FamilyList[i].type = "None")
        => selInfo = IF kind = "enc" THEN selectEncoder(codecString, "NoPreference")
                     ELSE selectDecoder(codecString, "NoPreference")

\* C39: a flush on a session that is not Configured (never configured, or
\* closed) invokes its completion callback once, synchronously, pushes no job
\* and neither creates the flush channel nor sets the flush-pending flag.
C39_FlushNotConfigured ==
    [][(Flush /\ lifecycle # "Configured")
          => (/\ syncFlush' = syncFlush + 1
              /\ UNCHANGED <<jobQueue, submitted, flushPending, tsfnFlush, chFlush>>)]_vars

C39_Witness ==
    /\ syncFlush = 1
    /\ lifecycle = "Closed"
    /\ ~flushPending /\ jobQueue = <<>>

\* C40: every frame a decoder session queues while it processes a decode job
\* carries the timestamp and duration of that job, whichever chunk the frame was
\* decoded from; every frame it queues while it processes a flush job carries
\* the timestamp and duration the codec kept for the frame, those of its chunk.
C40_DecodeTimestamps ==
    kind = "dec" =>
        \A c \in Range(chOutput) \cup {d \in Range(delivered) : d.kind = "out"} :
            LET stamped == IF submitted[c.during].isFlush THEN c.job ELSE c.during IN
                /\ c.timestamp = submitted[stamped].timestamp
                /\ c.duration = submitted[stamped].duration

\* a decoder that delays its output delivers the frame of the first chunk while
\* the second is decoded, stamped with the second chunk's timestamp
C40_Witness ==
    /\ kind = "dec"
    /\ \E i \in 1..Len(delivered) :
          /\ delivered[i].kind = "out"
          /\ ~submitted[delivered[i].during].isFlush
          /\ delivered[i].job # delivered[i].during
          /\ delivered[i].timestamp # submitted[delivered[i].job].timestamp

====
